---- MODULE Spec2Model ----
(***************************************************************************)
(* A model of the utfbom package: BOM detection over byte buffers and the  *)
(* BOM-skipping readers built on it.  The repository carries the reader in *)
(* several variants; two are modelled here:                                *)
(*   "bufio" : NewReader / Reader.Read over a bufio.Reader with sync.Once  *)
(*             (src/unnamed/part_001)                                      *)
(*   "skip"  : Skip / Reader.Read with a retained lookahead buffer         *)
(*             (src/utfbom.go)                                             *)
(* Bytes are the integers 0..255.  An error value is modelled by the set   *)
(* of sentinel errors it matches under errors.Is; nil is the empty set.    *)
(***************************************************************************)
EXTENDS Integers, Sequences, FiniteSets, TLC

VARIABLES
    variant,    \* which Reader implementation wraps the source
    content,    \* everything the source will ever deliver (never changes)
    src,        \* the wrapped io.Reader
    phase,      \* "new": Skip not called yet; "ready": the Reader exists
    r,          \* the Reader's fields
    out,        \* all bytes delivered to the caller so far, in order
    last,       \* the latest Read call: its len(p), n, err and bytes
    nth,        \* number of Reads with a non-empty buffer so far (capped)
    calls,      \* source Read calls made by the latest operation
    callerBuf,  \* the buffer a caller hands to DetectEncoding or Trim
    call,       \* the latest call of DetectEncoding, Trim or Len and its result
    thr,        \* concurrent callers of Read: where each one is in its call
    once,       \* the Reader's sync.Once while callers run concurrently
    bom         \* readBOM's loop, followed pass by pass: its variables

readerVars == <<variant, content, src, phase, r, out, last, nth, calls>>

\* what the calls that involve no Reader work on
libVars == <<callerBuf, call, bom>>

concVars == <<thr, once>>

vars == <<variant, content, src, phase, r, out, last, nth, calls, callerBuf, call,
          thr, once, bom>>

(***************************************************************************)
(* Bounds of the model.                                                    *)
(***************************************************************************)
\* payload bytes that follow the head of a source content
MaxPayload == 2
\* largest destination buffer a caller passes to Read
MaxCap == 4
\* number of goroutines that call Read concurrently
MaxThreads == 2
\* Read calls they make between them
MaxReads == 3
\* longest arbitrary buffer handed to DetectEncoding and Trim
MaxInput == 4
\* largest bounded chunk size of a source (besides "everything at once")
MaxChunk == 2
\* nth stops counting here
MaxNth == 2
\* a loop of the code is followed for 2^LoopDepth passes; each ends well before
LoopDepth == 10

(***************************************************************************)
(* Errors.                                                                 *)
(***************************************************************************)
NoErr == {}
EOF == {"io.EOF"}
ErrUnexpectedEOF == {"io.ErrUnexpectedEOF"}
ErrClosedPipe == {"io.ErrClosedPipe"}
ErrNoProgress == {"io.ErrNoProgress"}
ErrBufferFull == {"bufio.ErrBufferFull"}
ErrRead == {"utfbom.ErrRead"}
ErrShortBuffer == {"io.ErrShortBuffer"}
ErrInitBufferReadError == {"utfbom.ErrInitBufferReadError"}

\* errors.Is(err, target) for a sentinel target
Is(err, target) == target \subseteq err /\ target # {}

\* errors.Join(a, b): matches whatever a or b matches
Join(a, b) == a \cup b

(***************************************************************************)
(* Small helpers on sequences.                                             *)
(***************************************************************************)
Min(a, b) == IF a <= b THEN a ELSE b

Take(s, n) == SubSeq(s, 1, Min(n, Len(s)))

Drop(s, n) == SubSeq(s, Min(n, Len(s)) + 1, Len(s))

\* bytes.HasPrefix
HasPrefix(s, p) == Len(s) >= Len(p) /\ SubSeq(s, 1, Len(p)) = p

IsPrefixOf(p, s) == HasPrefix(s, p)

SeqsUpTo(S, n) == UNION {[1..k -> S] : k \in 0..n}

\* F applied to the value of e, which is computed once
With(e, F(_)) == CHOOSE y \in {F(x) : x \in {e}} : TRUE

(***************************************************************************)
(* The encoding table.                                                     *)
(***************************************************************************)
Unknown == "Unknown"
UTF8 == "UTF8"
UTF16BigEndian == "UTF16BigEndian"
UTF16LittleEndian == "UTF16LittleEndian"
UTF32BigEndian == "UTF32BigEndian"
UTF32LittleEndian == "UTF32LittleEndian"

Encodings == {UTF8, UTF16BigEndian, UTF16LittleEndian,
              UTF32BigEndian, UTF32LittleEndian}

utf8BOM == <<239, 187, 191>>
utf16BEBOM == <<254, 255>>
utf16LEBOM == <<255, 254>>
utf32BEBOM == <<0, 0, 254, 255>>
utf32LEBOM == <<255, 254, 0, 0>>

\* the marker each encoding names (the doc comments of the Encoding constants)
Marker(e) ==
    CASE e = UTF8 -> utf8BOM
      [] e = UTF16BigEndian -> utf16BEBOM
      [] e = UTF16LittleEndian -> utf16LEBOM
      [] e = UTF32BigEndian -> utf32BEBOM
      [] e = UTF32LittleEndian -> utf32LEBOM
      [] OTHER -> <<>>

\* Len with the cases grouped by byte order instead of by width
EncLen_ByEndianness(e) ==
    CASE e = UTF8 -> 3
      [] e \in {UTF16BigEndian, UTF32BigEndian} -> 2
      [] e \in {UTF16LittleEndian, UTF32LittleEndian} -> 4
      [] OTHER -> 0

\* Len with the UTF-8 marker taken for two bytes long
EncLen_UTF8Short(e) ==
    CASE e = UTF8 -> 2
      [] e \in {UTF16BigEndian, UTF16LittleEndian} -> 2
      [] e \in {UTF32BigEndian, UTF32LittleEndian} -> 4
      [] OTHER -> 0

EncLen(e) ==
    CASE e = UTF8 -> 3
      [] e \in {UTF16BigEndian, UTF16LittleEndian} -> 2
      [] e \in {UTF32BigEndian, UTF32LittleEndian} -> 4
      [] OTHER -> 0

\* DetectEncoding with the results of the two 4-byte markers exchanged
DetectEncoding_Swapped32(ibs) ==
    IF Len(ibs) < 2 THEN Unknown
    ELSE IF Len(ibs) >= 4 /\ HasPrefix(ibs, utf32BEBOM) THEN UTF32LittleEndian
    ELSE IF Len(ibs) >= 4 /\ HasPrefix(ibs, utf32LEBOM) THEN UTF32BigEndian
    ELSE IF Len(ibs) >= 3 /\ HasPrefix(ibs, utf8BOM) THEN UTF8
    ELSE IF HasPrefix(ibs, utf16BEBOM) THEN UTF16BigEndian
    ELSE IF HasPrefix(ibs, utf16LEBOM) THEN UTF16LittleEndian
    ELSE Unknown

\* DetectEncoding trying the 2-byte markers before the 4-byte ones
DetectEncoding_ShortFirst(ibs) ==
    IF Len(ibs) < 2 THEN Unknown
    ELSE IF HasPrefix(ibs, utf16BEBOM) THEN UTF16BigEndian
    ELSE IF HasPrefix(ibs, utf16LEBOM) THEN UTF16LittleEndian
    ELSE IF Len(ibs) >= 3 /\ HasPrefix(ibs, utf8BOM) THEN UTF8
    ELSE IF Len(ibs) >= 4 /\ HasPrefix(ibs, utf32BEBOM) THEN UTF32BigEndian
    ELSE IF Len(ibs) >= 4 /\ HasPrefix(ibs, utf32LEBOM) THEN UTF32LittleEndian
    ELSE Unknown

\* DetectEncoding that takes the first two bytes of the UTF-8 marker for it
DetectEncoding_TwoBytesOfUTF8(ibs) ==
    IF Len(ibs) < 2 THEN Unknown
    ELSE IF Len(ibs) >= 4 /\ HasPrefix(ibs, utf32BEBOM) THEN UTF32BigEndian
    ELSE IF Len(ibs) >= 4 /\ HasPrefix(ibs, utf32LEBOM) THEN UTF32LittleEndian
    ELSE IF HasPrefix(ibs, Take(utf8BOM, 2)) THEN UTF8
    ELSE IF HasPrefix(ibs, utf16BEBOM) THEN UTF16BigEndian
    ELSE IF HasPrefix(ibs, utf16LEBOM) THEN UTF16LittleEndian
    ELSE Unknown

DetectEncoding(ibs) ==
    IF Len(ibs) < 2 THEN Unknown
    ELSE IF Len(ibs) >= 4 /\ HasPrefix(ibs, utf32BEBOM) THEN UTF32BigEndian
    ELSE IF Len(ibs) >= 4 /\ HasPrefix(ibs, utf32LEBOM) THEN UTF32LittleEndian
    ELSE IF Len(ibs) >= 3 /\ HasPrefix(ibs, utf8BOM) THEN UTF8
    ELSE IF HasPrefix(ibs, utf16BEBOM) THEN UTF16BigEndian
    ELSE IF HasPrefix(ibs, utf16LEBOM) THEN UTF16LittleEndian
    ELSE Unknown

\* DetectEncoding of utfbom.go, which compares byte by byte: its tests past
\* the length guard, for a buffer of two bytes or more
detectByIndex(i) ==
    IF Len(i) >= 4 /\ utf32BEBOM[1] = i[1] /\ utf32BEBOM[2] = i[2]
                   /\ utf32BEBOM[3] = i[3] /\ utf32BEBOM[4] = i[4]
    THEN UTF32BigEndian
    ELSE IF Len(i) >= 4 /\ utf32LEBOM[1] = i[1] /\ utf32LEBOM[2] = i[2]
                        /\ utf32LEBOM[3] = i[3] /\ utf32LEBOM[4] = i[4]
    THEN UTF32LittleEndian
    ELSE IF Len(i) >= 3 /\ utf8BOM[1] = i[1] /\ utf8BOM[2] = i[2] /\ utf8BOM[3] = i[3]
    THEN UTF8
    ELSE IF utf16BEBOM[1] = i[1] /\ utf16BEBOM[2] = i[2] THEN UTF16BigEndian
    ELSE IF utf16LEBOM[1] = i[1] /\ utf16LEBOM[2] = i[2] THEN UTF16LittleEndian
    ELSE Unknown

\* the outcome of a call that panics (index out of range)
Panic == "panic"

\* DetectEncoding of utfbom.go without its length guard: i[0] and i[1] are
\* read whatever the length
DetectEncodingByIndex_NoGuard(i) ==
    IF Len(i) = 0 THEN Panic
    ELSE IF Len(i) = 1
    THEN IF i[1] \in {utf16BEBOM[1], utf16LEBOM[1]} THEN Panic ELSE Unknown
    ELSE detectByIndex(i)

DetectEncodingByIndex(i) ==
    IF Len(i) < 2 THEN Unknown ELSE detectByIndex(i)

\* Trim that returns its input when a marker was found, too
Trim_NoSlice(input) ==
    [out |-> input, enc |-> DetectEncoding(input), input |-> input, panic |-> FALSE]

\* Trim that cuts at the length of the longest marker
Trim_CutsFour(input) ==
    LET enc == DetectEncoding(input)
    IN  IF enc = Unknown
        THEN [out |-> input, enc |-> enc, input |-> input, panic |-> FALSE]
        ELSE [out |-> SubSeq(input, 5, Len(input)), enc |-> enc, input |-> input,
              panic |-> Len(input) < 4]

\* Trim that moves the bytes after the marker to the front of its input
Trim_InPlace(input) ==
    LET enc == DetectEncoding(input)
        rest == SubSeq(input, EncLen(enc) + 1, Len(input))
    IN  [out |-> rest, enc |-> enc,
         input |-> rest \o SubSeq(input, Len(rest) + 1, Len(input)),
         panic |-> FALSE]

\* Trim(input): `out` is the slice returned, `enc` the encoding returned and
\* `input` the caller's buffer after the call (the code only reads it; the
\* slice returned is a view of it); `panic` tells that bytes[enc.Len():]
\* was out of range, and then nothing is returned
Trim(input) ==
    LET enc == DetectEncoding(input)
    IN  IF enc = Unknown
        THEN [out |-> input, enc |-> enc, input |-> input, panic |-> FALSE]
        ELSE IF EncLen(enc) > Len(input)
        THEN [out |-> <<>>, enc |-> enc, input |-> input, panic |-> TRUE]
        ELSE [out |-> SubSeq(input, EncLen(enc) + 1, Len(input)), enc |-> enc,
              input |-> input, panic |-> FALSE]

(***************************************************************************)
(* The wrapped source: an io.Reader over a fixed content.  It hands out at *)
(* most `chunk` bytes per call, reports its final error `fin` either with  *)
(* its last bytes (eager, as the tests' sliceReader does) or on the call   *)
(* after them (as strings.Reader does), and answers `gap` calls with       *)
(* (0, nil) before every other answer; a stall of Forever never ends (the  *)
(* tests' zeroReader).                                                     *)
(***************************************************************************)
Forever == 0 - 1

\* Read(p) with len(p) = k >= 1
SrcRead(s, k) ==
    IF s.stall # 0
    THEN [n |-> 0, bytes |-> <<>>, err |-> NoErr,
          src |-> [s EXCEPT !.stall = IF @ > 0 THEN @ - 1 ELSE @]]
    ELSE IF Len(s.data) = 0
    THEN [n |-> 0, bytes |-> <<>>, err |-> s.fin, src |-> s]
    ELSE LET n == Min(Min(k, s.chunk), Len(s.data))
             rest == Drop(s.data, n)
             err == IF s.eager /\ rest = <<>> THEN s.fin ELSE NoErr
         IN  [n |-> n, bytes |-> Take(s.data, n), err |-> err,
              src |-> [s EXCEPT !.data = rest,
                                !.stall = IF err = NoErr THEN s.gap ELSE 0]]

(***************************************************************************)
(* bufio.Reader, as the part_001 Reader uses it: NewReader, Peek, Discard  *)
(* and Read.  The buffer b.buf[b.r:b.w] is the sequence `buf`; `err` is    *)
(* the error bufio holds back until its buffered bytes are gone.           *)
(***************************************************************************)
defaultBufSize == 4096

maxConsecutiveEmptyReads == 100

bufioNewReader == [buf |-> <<>>, err |-> NoErr]

\* one pass of fill's retry loop; st.i counts the tries left, st.done is set
\* by the pass that returns
bufioFillBody(st) ==
    With(SrcRead(st.src, defaultBufSize - Len(st.b.buf)), LAMBDA rr :
        LET b1 == [st.b EXCEPT !.buf = @ \o rr.bytes]
        IN  IF rr.err # NoErr
            THEN [b |-> [b1 EXCEPT !.err = rr.err], src |-> rr.src, i |-> st.i,
                  calls |-> st.calls + 1, done |-> TRUE]
            ELSE IF rr.n > 0
            THEN [b |-> b1, src |-> rr.src, i |-> st.i, calls |-> st.calls + 1,
                  done |-> TRUE]
            ELSE [b |-> b1, src |-> rr.src, i |-> st.i - 1, calls |-> st.calls + 1,
                  done |-> FALSE])

\* the loop `for i := maxConsecutiveEmptyReads; i > 0; i--`, followed for at
\* most 2^d passes
RECURSIVE bufioFillLoop(_, _)
bufioFillLoop(st, d) ==
    IF st.done \/ st.i <= 0 THEN st
    ELSE IF d = 0 THEN bufioFillBody(st)
    ELSE With(bufioFillLoop(st, d - 1), LAMBDA mid : bufioFillLoop(mid, d - 1))

\* fill: read a chunk into the buffer, trying a limited number of times
bufioFill(b, s, c) ==
    With(bufioFillLoop([b |-> b, src |-> s, i |-> maxConsecutiveEmptyReads,
                        calls |-> c, done |-> FALSE], LoopDepth), LAMBDA st :
        IF st.done
        THEN [b |-> st.b, src |-> st.src, calls |-> st.calls]
        ELSE [b |-> [st.b EXCEPT !.err = ErrNoProgress], src |-> st.src,
              calls |-> st.calls])

\* the loop of Peek: fill until n bytes are buffered or an error is held
RECURSIVE bufioPeekLoop(_, _, _, _)
bufioPeekLoop(b, s, n, c) ==
    IF Len(b.buf) < n /\ Len(b.buf) < defaultBufSize /\ b.err = NoErr
    THEN With(bufioFill(b, s, c), LAMBDA f : bufioPeekLoop(f.b, f.src, n, f.calls))
    ELSE [b |-> b, src |-> s, calls |-> c]

bufioPeek(b, s, n) ==
    With(bufioPeekLoop(b, s, n, 0), LAMBDA l :
        IF Len(l.b.buf) < n
        THEN [bytes |-> l.b.buf,
              err |-> IF l.b.err = NoErr THEN ErrBufferFull ELSE l.b.err,
              b |-> [l.b EXCEPT !.err = NoErr], src |-> l.src, calls |-> l.calls]
        ELSE [bytes |-> Take(l.b.buf, n), err |-> NoErr,
              b |-> l.b, src |-> l.src, calls |-> l.calls])

RECURSIVE bufioDiscardLoop(_, _, _, _, _)
bufioDiscardLoop(b, s, n, remain, c) ==
    With(IF Len(b.buf) = 0 THEN bufioFill(b, s, c)
         ELSE [b |-> b, src |-> s, calls |-> c], LAMBDA f :
        LET skip == Min(Len(f.b.buf), remain)
            b1 == [f.b EXCEPT !.buf = Drop(@, skip)]
        IN  IF remain - skip = 0
            THEN [discarded |-> n, err |-> NoErr, b |-> b1, src |-> f.src,
                  calls |-> f.calls]
            ELSE IF b1.err # NoErr
            THEN [discarded |-> n - (remain - skip), err |-> b1.err,
                  b |-> [b1 EXCEPT !.err = NoErr], src |-> f.src, calls |-> f.calls]
            ELSE bufioDiscardLoop(b1, f.src, n, remain - skip, f.calls))

bufioDiscard(b, s, n) ==
    IF n = 0
    THEN [discarded |-> 0, err |-> NoErr, b |-> b, src |-> s, calls |-> 0]
    ELSE bufioDiscardLoop(b, s, n, n, 0)

\* Read(p) with len(p) = k
bufioRead(b, s, k) ==
    IF k = 0
    THEN IF Len(b.buf) > 0
         THEN [n |-> 0, bytes |-> <<>>, err |-> NoErr, b |-> b, src |-> s, calls |-> 0]
         ELSE [n |-> 0, bytes |-> <<>>, err |-> b.err,
               b |-> [b EXCEPT !.err = NoErr], src |-> s, calls |-> 0]
    ELSE IF Len(b.buf) = 0
    THEN IF b.err # NoErr
         THEN [n |-> 0, bytes |-> <<>>, err |-> b.err,
               b |-> [b EXCEPT !.err = NoErr], src |-> s, calls |-> 0]
         ELSE With(SrcRead(s, IF k >= defaultBufSize THEN k ELSE defaultBufSize),
                   LAMBDA rr :
                  IF k >= defaultBufSize \/ rr.n = 0
                  THEN [n |-> rr.n, bytes |-> rr.bytes, err |-> rr.err,
                        b |-> b, src |-> rr.src, calls |-> 1]
                  ELSE [n |-> Min(k, rr.n), bytes |-> Take(rr.bytes, k), err |-> NoErr,
                        b |-> [buf |-> Drop(rr.bytes, k), err |-> rr.err],
                        src |-> rr.src, calls |-> 1])
    ELSE [n |-> Min(k, Len(b.buf)), bytes |-> Take(b.buf, k), err |-> NoErr,
          b |-> [b EXCEPT !.buf = Drop(@, k)], src |-> s, calls |-> 0]

(***************************************************************************)
(* The bufio-based Reader (part_001).                                      *)
(***************************************************************************)
maxBOMLen == 4

NewReader == [rd |-> bufioNewReader, once |-> FALSE, Enc |-> Unknown]

\* lookahead that fails on every Peek error, end-of-data included
OnceBody_StrictPeek(rr, s) ==
    With(bufioPeek(rr.rd, s, maxBOMLen), LAMBDA pk :
        IF pk.err # NoErr
        THEN [r |-> [rr EXCEPT !.rd = pk.b], src |-> pk.src,
              bomErr |-> Join(ErrRead, pk.err), calls |-> pk.calls]
        ELSE LET enc == DetectEncoding(pk.bytes)
             IN  With(bufioDiscard(pk.b, pk.src, EncLen(enc)), LAMBDA dc :
                     [r |-> [rr EXCEPT !.rd = dc.b, !.Enc = enc], src |-> dc.src,
                      bomErr |-> NoErr, calls |-> pk.calls + dc.calls]))

\* lookahead that returns the Peek error as it is, without ErrRead
OnceBody_Untagged(rr, s) ==
    With(bufioPeek(rr.rd, s, maxBOMLen), LAMBDA pk :
        IF pk.err # NoErr /\ ~Is(pk.err, EOF) /\ ~Is(pk.err, ErrUnexpectedEOF)
        THEN [r |-> [rr EXCEPT !.rd = pk.b], src |-> pk.src,
              bomErr |-> pk.err, calls |-> pk.calls]
        ELSE LET enc == DetectEncoding(pk.bytes)
             IN  With(bufioDiscard(pk.b, pk.src, EncLen(enc)), LAMBDA dc :
                     [r |-> [rr EXCEPT !.rd = dc.b, !.Enc = enc], src |-> dc.src,
                      bomErr |-> NoErr, calls |-> pk.calls + dc.calls]))

\* a lookahead of two bytes
OnceBody_PeeksTwo(rr, s) ==
    With(bufioPeek(rr.rd, s, 2), LAMBDA pk :
        IF pk.err # NoErr /\ ~Is(pk.err, EOF) /\ ~Is(pk.err, ErrUnexpectedEOF)
        THEN [r |-> [rr EXCEPT !.rd = pk.b], src |-> pk.src,
              bomErr |-> Join(ErrRead, pk.err), calls |-> pk.calls]
        ELSE LET enc == DetectEncoding(pk.bytes)
             IN  With(bufioDiscard(pk.b, pk.src, EncLen(enc)), LAMBDA dc :
                     [r |-> [rr EXCEPT !.rd = dc.b, !.Enc = enc], src |-> dc.src,
                      bomErr |-> NoErr, calls |-> pk.calls + dc.calls]))

\* a lookahead that detects on the bytes a failed Peek returned
OnceBody_DetectsDespiteError(rr, s) ==
    With(bufioPeek(rr.rd, s, maxBOMLen), LAMBDA pk :
        LET enc == DetectEncoding(pk.bytes)
            tag == IF pk.err # NoErr /\ ~Is(pk.err, EOF) /\ ~Is(pk.err, ErrUnexpectedEOF)
                   THEN Join(ErrRead, pk.err) ELSE NoErr
        IN  With(bufioDiscard(pk.b, pk.src, EncLen(enc)), LAMBDA dc :
                [r |-> [rr EXCEPT !.rd = dc.b, !.Enc = enc], src |-> dc.src,
                 bomErr |-> tag, calls |-> pk.calls + dc.calls]))

\* a lookahead that discards the whole window whatever the marker's length
OnceBody_DiscardsWindow(rr, s) ==
    With(bufioPeek(rr.rd, s, maxBOMLen), LAMBDA pk :
        IF pk.err # NoErr /\ ~Is(pk.err, EOF) /\ ~Is(pk.err, ErrUnexpectedEOF)
        THEN [r |-> [rr EXCEPT !.rd = pk.b], src |-> pk.src,
              bomErr |-> Join(ErrRead, pk.err), calls |-> pk.calls]
        ELSE LET enc == DetectEncoding(pk.bytes)
             IN  IF enc # Unknown
                 THEN With(bufioDiscard(pk.b, pk.src, maxBOMLen), LAMBDA dc :
                          [r |-> [rr EXCEPT !.rd = dc.b, !.Enc = enc], src |-> dc.src,
                           bomErr |-> IF dc.err # NoErr THEN Join(ErrRead, dc.err)
                                      ELSE NoErr,
                           calls |-> pk.calls + dc.calls])
                 ELSE [r |-> [rr EXCEPT !.rd = pk.b, !.Enc = enc], src |-> pk.src,
                       bomErr |-> NoErr, calls |-> pk.calls])

\* the function handed to r.once.Do: peek, detect, discard
OnceBody(rr, s) ==
    With(bufioPeek(rr.rd, s, maxBOMLen), LAMBDA pk :
        IF pk.err # NoErr /\ ~Is(pk.err, EOF) /\ ~Is(pk.err, ErrUnexpectedEOF)
        THEN [r |-> [rr EXCEPT !.rd = pk.b], src |-> pk.src,
              bomErr |-> Join(ErrRead, pk.err), calls |-> pk.calls]
        ELSE LET enc == DetectEncoding(pk.bytes)
             IN  IF enc # Unknown
                 THEN With(bufioDiscard(pk.b, pk.src, EncLen(enc)), LAMBDA dc :
                          [r |-> [rr EXCEPT !.rd = dc.b, !.Enc = enc], src |-> dc.src,
                           bomErr |-> IF dc.err # NoErr THEN Join(ErrRead, dc.err)
                                      ELSE NoErr,
                           calls |-> pk.calls + dc.calls])
                 ELSE [r |-> [rr EXCEPT !.rd = pk.b, !.Enc = enc], src |-> pk.src,
                       bomErr |-> NoErr, calls |-> pk.calls])

\* a Do that runs f on every call
OnceDo_EveryCall(rr, s) ==
    With(OnceBody(rr, s), LAMBDA d : [d EXCEPT !.r = [d.r EXCEPT !.once = TRUE]])

\* r.once.Do(f): f runs on the first call only
OnceDo(rr, s) ==
    IF rr.once
    THEN [r |-> rr, src |-> s, bomErr |-> NoErr, calls |-> 0]
    ELSE With(OnceBody(rr, s), LAMBDA d : [d EXCEPT !.r = [d.r EXCEPT !.once = TRUE]])

\* Read that returns 0 bytes and no error when the lookahead failed
ReaderReadBody_DropsBomErr(rr, s, k) ==
    With(OnceDo(rr, s), LAMBDA d :
        IF d.bomErr # NoErr
        THEN [r |-> d.r, src |-> d.src, n |-> 0, bytes |-> <<>>,
              err |-> NoErr, calls |-> d.calls]
        ELSE With(bufioRead(d.r.rd, d.src, k), LAMBDA rd :
                 [r |-> [d.r EXCEPT !.rd = rd.b], src |-> rd.src, n |-> rd.n,
                  bytes |-> rd.bytes, err |-> rd.err,
                  calls |-> d.calls + rd.calls]))

\* Read that tags the errors of the pass-through reads as well
ReaderReadBody_TagAll(rr, s, k) ==
    With(OnceDo(rr, s), LAMBDA d :
        IF d.bomErr # NoErr
        THEN [r |-> d.r, src |-> d.src, n |-> 0, bytes |-> <<>>,
              err |-> d.bomErr, calls |-> d.calls]
        ELSE With(bufioRead(d.r.rd, d.src, k), LAMBDA rd :
                 [r |-> [d.r EXCEPT !.rd = rd.b], src |-> rd.src, n |-> rd.n,
                  bytes |-> rd.bytes,
                  err |-> IF rd.err # NoErr THEN Join(ErrRead, rd.err) ELSE NoErr,
                  calls |-> d.calls + rd.calls]))

\* Read past its len(buf) == 0 guard: once.Do, then the read of r.rd
ReaderReadBody(rr, s, k) ==
    With(OnceDo(rr, s), LAMBDA d :
        IF d.bomErr # NoErr
        THEN [r |-> d.r, src |-> d.src, n |-> 0, bytes |-> <<>>,
              err |-> d.bomErr, calls |-> d.calls]
        ELSE With(bufioRead(d.r.rd, d.src, k), LAMBDA rd :
                 [r |-> [d.r EXCEPT !.rd = rd.b], src |-> rd.src, n |-> rd.n,
                  bytes |-> rd.bytes, err |-> rd.err,
                  calls |-> d.calls + rd.calls]))

\* Read that refuses a buffer too small to hold the lookahead window
ReaderRead_MinSize(rr, s, k) ==
    IF k = 0
    THEN [r |-> rr, src |-> s, n |-> 0, bytes |-> <<>>, err |-> NoErr, calls |-> 0]
    ELSE IF k < maxBOMLen /\ ~rr.once
    THEN [r |-> rr, src |-> s, n |-> 0, bytes |-> <<>>,
          err |-> {"io.ErrShortBuffer"}, calls |-> 0]
    ELSE ReaderReadBody(rr, s, k)

\* Read without its len(buf) == 0 guard
ReaderRead_NoGuard(rr, s, k) == ReaderReadBody(rr, s, k)

\* (*Reader).Read(buf) with len(buf) = k
ReaderRead(rr, s, k) ==
    IF k = 0
    THEN [r |-> rr, src |-> s, n |-> 0, bytes |-> <<>>, err |-> NoErr, calls |-> 0]
    ELSE ReaderReadBody(rr, s, k)

(***************************************************************************)
(* The Reader that reads its lookahead into a scratch buffer as long as    *)
(* the caller's (part_002).  It reads the source directly and keeps no     *)
(* bytes between calls.                                                    *)
(***************************************************************************)
Zeros(n) == [i \in 1..n |-> 0]

ScratchNewReader == [once |-> FALSE, Enc |-> Unknown]

\* the function handed to r.once.Do, for len(buf) = k: `bytesRead`, `readErr`
\* and the bytes copied into buf are what it leaves to Read; `panic` is set
\* when tmpbuf[:bytesRead] is sliced with a negative bytesRead
ScratchOnceBody(rr, s, k) ==
    IF k < maxBOMLen
    THEN [r |-> rr, src |-> s, bytesRead |-> 0, bytes |-> <<>>,
          readErr |-> Join(ErrInitBufferReadError, ErrShortBuffer),
          calls |-> 0, panic |-> FALSE]
    ELSE With(SrcRead(s, k), LAMBDA sr :
        IF sr.err # NoErr
        THEN [r |-> rr, src |-> sr.src, bytesRead |-> 0, bytes |-> <<>>,
              readErr |-> Join(ErrInitBufferReadError, sr.err),
              calls |-> 1, panic |-> FALSE]
        ELSE LET tmpbuf == sr.bytes \o Zeros(k - sr.n)
                 enc == DetectEncodingByIndex(tmpbuf)
                 trimmed == Drop(tmpbuf, EncLen(enc))
                 bytesRead == sr.n - EncLen(enc)
             IN  [r |-> [rr EXCEPT !.Enc = enc], src |-> sr.src,
                  bytesRead |-> bytesRead,
                  bytes |-> IF bytesRead < 0 THEN <<>> ELSE Take(trimmed, bytesRead),
                  readErr |-> NoErr, calls |-> 1, panic |-> bytesRead < 0])

\* Read whose once.Do leaves the detection to a later call when the buffer
\* is too short for it
ScratchReaderRead_RetriesDetection(rr, s, k) ==
    IF k = 0
    THEN [r |-> rr, src |-> s, n |-> 0, bytes |-> <<>>, err |-> NoErr, calls |-> 0,
          panic |-> FALSE]
    ELSE With(IF rr.once
              THEN [r |-> rr, src |-> s, bytesRead |-> 0, bytes |-> <<>>,
                    readErr |-> NoErr, calls |-> 0, panic |-> FALSE]
              ELSE ScratchOnceBody([rr EXCEPT !.once = (k >= maxBOMLen)], s, k),
              LAMBDA d :
        IF d.panic \/ d.bytesRead > 0 \/ d.readErr # NoErr
        THEN [r |-> d.r, src |-> d.src, n |-> d.bytesRead, bytes |-> d.bytes,
              err |-> d.readErr, calls |-> d.calls, panic |-> d.panic]
        ELSE With(SrcRead(d.src, k), LAMBDA sr :
                 [r |-> d.r, src |-> sr.src, n |-> sr.n, bytes |-> sr.bytes,
                  err |-> sr.err, calls |-> d.calls + 1, panic |-> FALSE]))

\* (*Reader).Read(buf) with len(buf) = k
ScratchReaderRead(rr, s, k) ==
    IF k = 0
    THEN [r |-> rr, src |-> s, n |-> 0, bytes |-> <<>>, err |-> NoErr, calls |-> 0,
          panic |-> FALSE]
    ELSE With(IF rr.once
              THEN [r |-> rr, src |-> s, bytesRead |-> 0, bytes |-> <<>>,
                    readErr |-> NoErr, calls |-> 0, panic |-> FALSE]
              ELSE ScratchOnceBody([rr EXCEPT !.once = TRUE], s, k), LAMBDA d :
        IF d.panic \/ d.bytesRead > 0 \/ d.readErr # NoErr
        THEN [r |-> d.r, src |-> d.src, n |-> d.bytesRead, bytes |-> d.bytes,
              err |-> d.readErr, calls |-> d.calls, panic |-> d.panic]
        ELSE With(SrcRead(d.src, k), LAMBDA sr :
                 [r |-> d.r, src |-> sr.src, n |-> sr.n, bytes |-> sr.bytes,
                  err |-> sr.err, calls |-> d.calls + 1, panic |-> FALSE]))

(***************************************************************************)
(* The Skip-based Reader (utfbom.go).  A Go slice is nil or a (possibly    *)
(* empty) sequence of bytes.                                               *)
(***************************************************************************)
maxBOMSize == 4

NilSlice == [nil |-> TRUE, b |-> <<>>]

Slice(bs) == [nil |-> FALSE, b |-> bs]

\* nilIfEmpty that drops what it is given
nilIfEmpty_AlwaysNil(buf) == NilSlice

\* nilIfEmpty that returns what it is given, an empty slice included
nilIfEmpty_KeepsEmpty(buf) == buf

nilIfEmpty(buf) == IF Len(buf.b) > 0 THEN buf ELSE NilSlice

isUTF32BigEndianBOM4(buf) == buf[1] = 0 /\ buf[2] = 0 /\ buf[3] = 254 /\ buf[4] = 255

isUTF32LittleEndianBOM4(buf) == buf[1] = 255 /\ buf[2] = 254 /\ buf[3] = 0 /\ buf[4] = 0

isUTF8BOM3(buf) == buf[1] = 239 /\ buf[2] = 187 /\ buf[3] = 191

isUTF16BigEndianBOM2(buf) == buf[1] = 254 /\ buf[2] = 255

isUTF16LittleEndianBOM2(buf) == buf[1] = 255 /\ buf[2] = 254

\* a pass of readBOM's loop that does not count the empty reads
readBOMBody_Unbounded(st) ==
    With(SrcRead(st.src, maxBOMSize - Len(st.buf)), LAMBDA rr :
        [src |-> rr.src, buf |-> st.buf \o rr.bytes, nEmpty |-> 0,
         err |-> rr.err, calls |-> st.calls + 1])

\* a pass of readBOM's loop that reads into a buffer of defaultBufSize bytes
readBOMBody_ReadsAhead(st) ==
    With(SrcRead(st.src, defaultBufSize), LAMBDA rr :
        LET nE == IF rr.n > 0 THEN 0 ELSE st.nEmpty + 1
        IN  [src |-> rr.src,
             buf |-> st.buf \o rr.bytes,
             nEmpty |-> nE,
             err |-> IF rr.n = 0 /\ nE >= maxConsecutiveEmptyReads
                     THEN ErrNoProgress ELSE rr.err,
             calls |-> st.calls + 1])

\* a pass of readBOM's loop that goes on after an error of the source
readBOMBody_IgnoresError(st) ==
    With(SrcRead(st.src, maxBOMSize - Len(st.buf)), LAMBDA rr :
        LET nE == IF rr.n > 0 THEN 0 ELSE st.nEmpty + 1
        IN  [src |-> rr.src,
             buf |-> st.buf \o rr.bytes,
             nEmpty |-> nE,
             err |-> IF rr.n = 0 /\ nE >= maxConsecutiveEmptyReads
                     THEN ErrNoProgress ELSE NoErr,
             calls |-> st.calls + 1])

\* one pass of readBOM's loop: the body, then the post statement
readBOMBody(st) ==
    With(SrcRead(st.src, maxBOMSize - Len(st.buf)), LAMBDA rr :
        LET nE == IF rr.n > 0 THEN 0 ELSE st.nEmpty + 1
        IN  [src |-> rr.src,
             buf |-> st.buf \o rr.bytes,
             nEmpty |-> nE,
             err |-> IF rr.n = 0 /\ nE >= maxConsecutiveEmptyReads
                     THEN ErrNoProgress ELSE rr.err,
             calls |-> st.calls + 1])

\* the loop `for ...; err == nil && len(buf) < maxBOMSize; ...`, followed for
\* at most 2^d passes
RECURSIVE readBOMLoop(_, _)
readBOMLoop(st, d) ==
    IF ~(st.err = NoErr /\ Len(st.buf) < maxBOMSize) THEN st
    ELSE IF d = 0 THEN readBOMBody(st)
    ELSE With(readBOMLoop(st, d - 1), LAMBDA mid : readBOMLoop(mid, d - 1))

readBOM(s) ==
    With(readBOMLoop([src |-> s, buf |-> <<>>, nEmpty |-> 0, err |-> NoErr,
                      calls |-> 0], LoopDepth), LAMBDA st :
        [buf |-> Slice(st.buf), err |-> st.err, src |-> st.src, calls |-> st.calls])

\* detectUtf that looks for the UTF-16 markers whatever readBOM's error
detectUtf_IgnoresErr(s) ==
    With(readBOM(s), LAMBDA rb :
        LET buf == rb.buf.b
            enc == DetectEncoding(buf)
        IN  [enc |-> enc, buf |-> nilIfEmpty(Slice(Drop(buf, EncLen(enc)))),
             err |-> rb.err, src |-> rb.src, calls |-> rb.calls])

detectUtf(s) ==
    With(readBOM(s), LAMBDA rb :
        LET buf == rb.buf.b
            res(enc, left) == [enc |-> enc, buf |-> nilIfEmpty(Slice(left)),
                               err |-> rb.err, src |-> rb.src, calls |-> rb.calls]
        IN  IF Len(buf) >= 4 /\ isUTF32BigEndianBOM4(buf)
            THEN res(UTF32BigEndian, Drop(buf, 4))
            ELSE IF Len(buf) >= 4 /\ isUTF32LittleEndianBOM4(buf)
            THEN res(UTF32LittleEndian, Drop(buf, 4))
            ELSE IF Len(buf) > 2 /\ isUTF8BOM3(buf)
            THEN res(UTF8, Drop(buf, 3))
            ELSE IF (rb.err # NoErr /\ rb.err # EOF) \/ Len(buf) < 2
            THEN res(Unknown, buf)
            ELSE IF isUTF16BigEndianBOM2(buf)
            THEN res(UTF16BigEndian, Drop(buf, 2))
            ELSE IF isUTF16LittleEndianBOM2(buf)
            THEN res(UTF16LittleEndian, Drop(buf, 2))
            ELSE res(Unknown, buf))

\* Skip that does not keep the error of its lookahead
SkipNew_DropsErr(s) ==
    With(detectUtf(s), LAMBDA d :
        [r |-> [buf |-> d.buf, err |-> NoErr, enc |-> d.enc], enc |-> d.enc,
         src |-> d.src, calls |-> d.calls])

\* Skip(rd) for an rd that is not yet a *Reader
SkipNew(s) ==
    With(detectUtf(s), LAMBDA d :
        [r |-> [buf |-> d.buf, err |-> d.err, enc |-> d.enc], enc |-> d.enc,
         src |-> d.src, calls |-> d.calls])

\* Skip that runs its lookahead again on the source behind the Reader
SkipReader_Redetects(b, s) == SkipNew(s)

\* Skip(rd) for an rd that is already a *Reader b over the source s
SkipReader(b, s) == [r |-> b, enc |-> b.enc, src |-> s, calls |-> 0]

\* Read that returns the stored error before the bytes it retains
SkipReaderRead_ErrFirst(rr, s, k) ==
    IF k = 0
    THEN [r |-> rr, src |-> s, n |-> 0, bytes |-> <<>>, err |-> NoErr, calls |-> 0]
    ELSE IF rr.err # NoErr
    THEN [r |-> [rr EXCEPT !.err = NoErr], src |-> s, n |-> 0, bytes |-> <<>>,
          err |-> rr.err, calls |-> 0]
    ELSE IF rr.buf.nil
    THEN With(SrcRead(s, k), LAMBDA sr :
             [r |-> rr, src |-> sr.src, n |-> sr.n, bytes |-> sr.bytes,
              err |-> sr.err, calls |-> 1])
    ELSE LET n == Min(k, Len(rr.buf.b))
         IN  [r |-> [rr EXCEPT !.buf = nilIfEmpty(Slice(Drop(rr.buf.b, n)))], src |-> s,
              n |-> n, bytes |-> Take(rr.buf.b, n), err |-> NoErr, calls |-> 0]

\* Read that asks the source again when it answered (0, nil)
SkipReaderRead_Retries(rr, s, k) ==
    IF k = 0
    THEN [r |-> rr, src |-> s, n |-> 0, bytes |-> <<>>, err |-> NoErr, calls |-> 0]
    ELSE IF rr.buf.nil
    THEN IF rr.err # NoErr
         THEN [r |-> [rr EXCEPT !.err = NoErr], src |-> s, n |-> 0, bytes |-> <<>>,
               err |-> rr.err, calls |-> 0]
         ELSE With(SrcRead(s, k), LAMBDA sr :
                  IF sr.n = 0 /\ sr.err = NoErr
                  THEN With(SrcRead(sr.src, k), LAMBDA again :
                           [r |-> rr, src |-> again.src, n |-> again.n,
                            bytes |-> again.bytes, err |-> again.err, calls |-> 2])
                  ELSE [r |-> rr, src |-> sr.src, n |-> sr.n, bytes |-> sr.bytes,
                        err |-> sr.err, calls |-> 1])
    ELSE LET n == Min(k, Len(rr.buf.b))
         IN  [r |-> [rr EXCEPT !.buf = nilIfEmpty(Slice(Drop(rr.buf.b, n)))], src |-> s,
              n |-> n, bytes |-> Take(rr.buf.b, n), err |-> NoErr, calls |-> 0]

\* (*Reader).Read(p) with len(p) = k
SkipReaderRead(rr, s, k) ==
    IF k = 0
    THEN [r |-> rr, src |-> s, n |-> 0, bytes |-> <<>>, err |-> NoErr, calls |-> 0]
    ELSE IF rr.buf.nil
    THEN IF rr.err # NoErr
         THEN [r |-> [rr EXCEPT !.err = NoErr], src |-> s, n |-> 0, bytes |-> <<>>,
               err |-> rr.err, calls |-> 0]
         ELSE With(SrcRead(s, k), LAMBDA sr :
                  [r |-> rr, src |-> sr.src, n |-> sr.n, bytes |-> sr.bytes,
                   err |-> sr.err, calls |-> 1])
    ELSE LET n == Min(k, Len(rr.buf.b))
         IN  [r |-> [rr EXCEPT !.buf = nilIfEmpty(Slice(Drop(rr.buf.b, n)))], src |-> s,
              n |-> n, bytes |-> Take(rr.buf.b, n), err |-> NoErr, calls |-> 0]

(***************************************************************************)
(* The sources the model wraps.                                            *)
(***************************************************************************)
Markers == {Marker(e) : e \in Encodings}

\* every marker and every proper prefix of one (the empty sequence included)
Heads == {Take(m, k) : m \in Markers, k \in 0..4}

PayloadBytes == {0, 104}

Contents == {h \o t : h \in Heads, t \in SeqsUpTo(PayloadBytes, MaxPayload)}

\* a chunk size of defaultBufSize hands out everything left in one call
ChunkSizes == (1..MaxChunk) \cup {defaultBufSize}

FinalErrors == {EOF, ErrUnexpectedEOF, ErrClosedPipe}

Source(c, ch, eg, f, g) ==
    [data |-> c, chunk |-> ch, eager |-> eg, fin |-> f, gap |-> g, stall |-> g]

\* sources that never answer (0, nil)
PlainSources ==
    {Source(c, ch, eg, f, 0) :
        c \in Contents, ch \in ChunkSizes, eg \in BOOLEAN, f \in FinalErrors}

\* sources that answer (0, nil) some number of times before each answer
StallContents ==
    {h \o t : h \in {<<>>, utf16BEBOM, utf8BOM, utf32LEBOM}, t \in {<<>>, <<104>>}}

Gaps == {1, maxConsecutiveEmptyReads - 1, maxConsecutiveEmptyReads}

StallingSources ==
    {Source(c, ch, FALSE, EOF, g) :
        c \in StallContents, ch \in {1, defaultBufSize}, g \in Gaps}

\* the tests' zeroReader
zeroReader == Source(<<>>, 1, FALSE, EOF, Forever)

Sources == PlainSources \cup StallingSources \cup {zeroReader}

Variants == {"bufio", "skip"}

(***************************************************************************)
(* The state machine.                                                      *)
(***************************************************************************)
\* `enc` is the Encoding a Skip returned
NoCall == [op |-> "none", cap |-> 0, n |-> 0, err |-> NoErr, enc |-> Unknown]

\* no library function called yet
NoLibCall == [op |-> "none"]

\* no concurrent callers
NoThreads == <<>>

\* readBOM on entry: nothing read, no source call made
NoBOM == [src |-> zeroReader, buf |-> <<>>, nEmpty |-> 0, err |-> NoErr, calls |-> 0]

\* sync.Once{}: `done` is its flag, `m` the goroutine holding its mutex (0:
\* nobody); `running` and `ran` record the runs of the function handed to Do
NewOnce == [done |-> FALSE, m |-> 0, running |-> FALSE, ran |-> 0]

NoReader == [buf |-> NilSlice, err |-> NoErr, enc |-> Unknown]

Init ==
    /\ variant \in Variants
    /\ src \in Sources
    /\ content = src.data
    /\ phase = IF variant = "skip" THEN "new" ELSE "ready"
    /\ r = IF variant = "skip" THEN NoReader ELSE NewReader
    /\ out = <<>>
    /\ last = NoCall
    /\ nth = 0
    /\ calls = 0
    /\ callerBuf = <<>>
    /\ call = NoLibCall
    /\ thr = NoThreads
    /\ once = NewOnce
    /\ bom = NoBOM

\* what every Read leaves behind, given the result `res` of the variant's Read
Deliver(k, res) ==
    /\ r' = res.r
    /\ src' = res.src
    /\ out' = out \o res.bytes
    /\ last' = [NoCall EXCEPT !.op = "Read", !.cap = k, !.n = res.n, !.err = res.err]
    /\ nth' = IF k > 0 /\ nth < MaxNth THEN nth + 1 ELSE nth
    /\ calls' = res.calls
    /\ UNCHANGED <<variant, content, phase>>
    /\ UNCHANGED libVars
    /\ UNCHANGED concVars

\* a caller reads from the bufio-based Reader
BufioRead(k) ==
    /\ variant = "bufio"
    /\ phase = "ready"
    /\ \E res \in {ReaderRead(r, src, k)} : Deliver(k, res)

\* a caller wraps the source with Skip
Skip ==
    /\ variant = "skip"
    /\ phase = "new"
    /\ \E d \in {SkipNew(src)} :
           /\ r' = d.r
           /\ src' = d.src
           /\ calls' = d.calls
           /\ last' = [NoCall EXCEPT !.op = "Skip", !.enc = d.enc]
    /\ phase' = "ready"
    /\ UNCHANGED <<variant, content, out, nth>>
    /\ UNCHANGED libVars
    /\ UNCHANGED concVars

\* a caller reads from the Reader that Skip returned
SkipRead(k) ==
    /\ variant = "skip"
    /\ phase = "ready"
    /\ \E res \in {SkipReaderRead(r, src, k)} : Deliver(k, res)

\* a caller hands the Reader that Skip returned to Skip
SkipAgain ==
    /\ variant = "skip"
    /\ phase = "ready"
    /\ \E d \in {SkipReader(r, src)} :
           /\ r' = d.r
           /\ src' = d.src
           /\ calls' = d.calls
           /\ last' = [NoCall EXCEPT !.op = "SkipReader", !.enc = d.enc]
    /\ UNCHANGED <<variant, content, phase, out, nth>>
    /\ UNCHANGED libVars
    /\ UNCHANGED concVars

Next ==
    \/ \E k \in 0..MaxCap : BufioRead(k)
    \/ Skip
    \/ SkipAgain
    \/ \E k \in 0..MaxCap : SkipRead(k)

Spec == Init /\ [][Next]_vars

\* the encoding the Reader reports
Enc == IF variant = "skip" THEN r.enc ELSE r.Enc

(***************************************************************************)
(* The three Readers side by side: the two above and the scratch-buffer    *)
(* Reader of part_002.                                                     *)
(***************************************************************************)
AllVariants == Variants \cup {"scratch"}

AllInit ==
    /\ variant \in AllVariants
    /\ src \in Sources
    /\ content = src.data
    /\ phase = IF variant = "skip" THEN "new" ELSE "ready"
    /\ r = CASE variant = "skip" -> NoReader
             [] variant = "bufio" -> NewReader
             [] variant = "scratch" -> ScratchNewReader
    /\ out = <<>>
    /\ last = NoCall
    /\ nth = 0
    /\ calls = 0
    /\ callerBuf = <<>>
    /\ call = NoLibCall
    /\ thr = NoThreads
    /\ once = NewOnce
    /\ bom = NoBOM

\* a caller reads from the scratch-buffer Reader; a panic ends the run
ScratchRead(k) ==
    /\ variant = "scratch"
    /\ phase = "ready"
    /\ \E res \in {ScratchReaderRead(r, src, k)} :
          IF res.panic
          THEN /\ phase' = "panicked"
               /\ r' = res.r
               /\ src' = res.src
               /\ calls' = res.calls
               /\ last' = [NoCall EXCEPT !.op = "panic", !.cap = k]
               /\ UNCHANGED <<variant, content, out, nth>>
               /\ UNCHANGED libVars
               /\ UNCHANGED concVars
          ELSE Deliver(k, res)

AllNext ==
    \/ Next
    \/ \E k \in 0..MaxCap : ScratchRead(k)

AllSpec == AllInit /\ [][AllNext]_vars

(***************************************************************************)
(* The functions on buffers and encodings: a caller holds a buffer and     *)
(* calls DetectEncoding (either implementation), Trim and Encoding.Len.    *)
(***************************************************************************)
\* bytes of the markers, and two that occur in none
LibBytes == {0, 104, 187, 191, 239, 254, 255}

\* every buffer of up to MaxInput bytes, and every marker followed by up to
\* MaxPayload bytes
LibInputs ==
    SeqsUpTo(LibBytes, MaxInput)
        \cup {m \o p : m \in Markers, p \in SeqsUpTo(LibBytes, MaxPayload)}

\* Encoding values outside the declared constants, such as Encoding(999)
UndeclaredEncodings == {"Encoding(6)", "Encoding(999)", "Encoding(-1)"}

EncodingValues == {Unknown} \cup Encodings \cup UndeclaredEncodings

LibInit ==
    /\ callerBuf \in LibInputs
    /\ call = NoLibCall
    /\ thr = NoThreads
    /\ once = NewOnce
    /\ bom = NoBOM
    /\ variant = "none"
    /\ src = zeroReader
    /\ content = <<>>
    /\ phase = "none"
    /\ r = NoReader
    /\ out = <<>>
    /\ last = NoCall
    /\ nth = 0
    /\ calls = 0

\* DetectEncoding(callerBuf), part_001
DetectEncodingCall ==
    /\ call' = [op |-> "DetectEncoding", arg |-> callerBuf, enc |-> DetectEncoding(callerBuf)]
    /\ UNCHANGED <<callerBuf, bom>>
    /\ UNCHANGED readerVars
    /\ UNCHANGED concVars

\* DetectEncoding(callerBuf), utfbom.go
DetectEncodingByIndexCall ==
    /\ call' = [op |-> "DetectEncodingByIndex", arg |-> callerBuf,
                enc |-> DetectEncodingByIndex(callerBuf)]
    /\ UNCHANGED <<callerBuf, bom>>
    /\ UNCHANGED readerVars
    /\ UNCHANGED concVars

\* Trim(callerBuf)
TrimCall ==
    /\ \E t \in {Trim(callerBuf)} :
          /\ call' = [op |-> "Trim", arg |-> callerBuf, out |-> t.out, enc |-> t.enc,
                      panic |-> t.panic]
          /\ callerBuf' = t.input
    /\ UNCHANGED bom
    /\ UNCHANGED readerVars
    /\ UNCHANGED concVars

\* e.Len()
LenCall ==
    /\ \E e \in EncodingValues :
          call' = [op |-> "Len", arg |-> e, n |-> EncLen(e)]
    /\ UNCHANGED <<callerBuf, bom>>
    /\ UNCHANGED readerVars
    /\ UNCHANGED concVars

LibNext ==
    \/ DetectEncodingCall
    \/ DetectEncodingByIndexCall
    \/ TrimCall
    \/ LenCall

LibSpec == LibInit /\ [][LibNext]_vars

(***************************************************************************)
(* Concurrent callers of one Reader (part_001 and part_002).  Each         *)
(* goroutine runs Read step by step: the fast path of once.Do (a load of   *)
(* the done flag), the slow path (lock the mutex, load the flag again, run *)
(* the function, store the flag, unlock), then what Read does with the     *)
(* locals the function left, then the read of the underlying reader, which *)
(* nothing serialises.                                                     *)
(***************************************************************************)
ConcVariants == {"bufio", "scratch"}

Threads == 1..MaxThreads

\* a short buffer and one that holds the lookahead window
ConcCaps == {1, MaxCap}

ConcContents ==
    {<<>>, <<104, 0>>, utf16LEBOM, utf8BOM \o <<104>>, utf32BEBOM \o <<104, 0>>}

ConcSources ==
    {Source(c, ch, FALSE, f, 0) :
        c \in ConcContents, ch \in {1, defaultBufSize}, f \in {EOF, ErrClosedPipe}}

\* a goroutine outside Read; `reads` counts the calls it has begun, and err,
\* bytesRead and bytes are the locals of Read the function handed to once.Do
\* assigns (bomErr / readErr, bytesRead, buf)
IdleThread ==
    [pc |-> "idle", k |-> 0, reads |-> 0, err |-> NoErr, bytesRead |-> 0,
     bytes |-> <<>>]

\* once.Do, fast path: o.done.Load() != 0
OnceDone(o) == o.done

\* a Lock that never waits
OnceCanLock_NoMutex(o) == TRUE

\* once.Do, slow path: o.m.Lock() goes through when nobody holds the mutex
OnceCanLock(o) == o.m = 0

ConcInit ==
    /\ variant \in ConcVariants
    /\ src \in ConcSources
    /\ content = src.data
    /\ phase = "ready"
    /\ r = IF variant = "bufio" THEN NewReader ELSE ScratchNewReader
    /\ out = <<>>
    /\ last = NoCall
    /\ nth = 0
    /\ calls = 0
    /\ callerBuf = <<>>
    /\ call = NoLibCall
    /\ thr = [t \in Threads |-> IdleThread]
    /\ once = NewOnce
    /\ bom = NoBOM

\* the Read calls goroutines 1..t have begun
RECURSIVE ReadsBegun(_)
ReadsBegun(t) == IF t = 0 THEN 0 ELSE thr[t].reads + ReadsBegun(t - 1)

\* goroutine t moves on inside Read
Goto(t, pc) == thr' = [thr EXCEPT ![t].pc = pc]

\* goroutine t returns (n, err) with `bytes` in its buffer
Return(t, n, bytes, err) ==
    /\ out' = out \o bytes
    /\ last' = [NoCall EXCEPT !.op = "Read", !.cap = thr[t].k, !.n = n, !.err = err]
    /\ nth' = IF nth < MaxNth THEN nth + 1 ELSE nth
    /\ thr' = [thr EXCEPT ![t] = [IdleThread EXCEPT !.reads = thr[t].reads]]

\* goroutine t calls Read with a buffer of k >= 1 bytes
ConcCall(t, k) ==
    /\ phase = "ready"
    /\ thr[t].pc = "idle"
    /\ ReadsBegun(MaxThreads) < MaxReads
    /\ thr' = [thr EXCEPT ![t].pc = "Do", ![t].k = k, ![t].reads = @ + 1]
    /\ UNCHANGED <<variant, content, src, phase, r, out, last, nth, calls, once>>
    /\ UNCHANGED libVars

\* once.Do: the fast path
ConcDo(t) ==
    /\ phase = "ready"
    /\ thr[t].pc = "Do"
    /\ Goto(t, IF OnceDone(once) THEN "after" ELSE "lock")
    /\ UNCHANGED <<variant, content, src, phase, r, out, last, nth, calls, once>>
    /\ UNCHANGED libVars

\* doSlow: o.m.Lock()
ConcLock(t) ==
    /\ phase = "ready"
    /\ thr[t].pc = "lock"
    /\ OnceCanLock(once)
    /\ once' = [once EXCEPT !.m = t]
    /\ Goto(t, "locked")
    /\ UNCHANGED <<variant, content, src, phase, r, out, last, nth, calls>>
    /\ UNCHANGED libVars

\* doSlow: the second load of the flag, under the mutex; f() starts when the
\* flag is still 0
ConcCheck(t) ==
    /\ phase = "ready"
    /\ thr[t].pc = "locked"
    /\ IF OnceDone(once)
       THEN /\ Goto(t, "unlock")
            /\ UNCHANGED once
       ELSE /\ Goto(t, "body")
            /\ once' = [once EXCEPT !.running = TRUE, !.ran = @ + 1]
    /\ UNCHANGED <<variant, content, src, phase, r, out, last, nth, calls>>
    /\ UNCHANGED libVars

\* f(): the lookahead.  A panic of the scratch-buffer Reader unwinds through
\* the deferred store and unlock and ends the run
ConcBody(t) ==
    /\ phase = "ready"
    /\ thr[t].pc = "body"
    /\ IF variant = "bufio"
       THEN \E d \in {OnceBody(r, src)} :
               /\ r' = d.r
               /\ src' = d.src
               /\ calls' = d.calls
               /\ thr' = [thr EXCEPT ![t].pc = "store", ![t].err = d.bomErr]
               /\ UNCHANGED <<phase, last, once>>
       ELSE \E d \in {ScratchOnceBody(r, src, thr[t].k)} :
               /\ r' = d.r
               /\ src' = d.src
               /\ calls' = d.calls
               /\ IF d.panic
                  THEN /\ phase' = "panicked"
                       /\ last' = [NoCall EXCEPT !.op = "panic", !.cap = thr[t].k]
                       /\ once' = [once EXCEPT !.done = TRUE, !.running = FALSE,
                                               !.m = 0]
                       /\ Goto(t, "panicked")
                  ELSE /\ thr' = [thr EXCEPT ![t].pc = "store",
                                             ![t].err = d.readErr,
                                             ![t].bytesRead = d.bytesRead,
                                             ![t].bytes = d.bytes]
                       /\ UNCHANGED <<phase, last, once>>
    /\ UNCHANGED <<variant, content, out, nth>>
    /\ UNCHANGED libVars

\* doSlow: the deferred o.done.Store(1), once f() has returned
ConcStore(t) ==
    /\ phase = "ready"
    /\ thr[t].pc = "store"
    /\ once' = [once EXCEPT !.done = TRUE, !.running = FALSE]
    /\ r' = [r EXCEPT !.once = TRUE]
    /\ Goto(t, "unlock")
    /\ UNCHANGED <<variant, content, src, phase, out, last, nth, calls>>
    /\ UNCHANGED libVars

\* doSlow: the deferred o.m.Unlock()
ConcUnlock(t) ==
    /\ phase = "ready"
    /\ thr[t].pc = "unlock"
    /\ once' = [once EXCEPT !.m = 0]
    /\ Goto(t, "after")
    /\ UNCHANGED <<variant, content, src, phase, r, out, last, nth, calls>>
    /\ UNCHANGED libVars

\* Read after once.Do: return what the lookahead left, or go on to the read
\* of the underlying reader
ConcAfter(t) ==
    /\ phase = "ready"
    /\ thr[t].pc = "after"
    /\ IF thr[t].err # NoErr \/ (variant = "scratch" /\ thr[t].bytesRead > 0)
       THEN Return(t, thr[t].bytesRead, thr[t].bytes, thr[t].err)
       ELSE /\ Goto(t, "read")
            /\ UNCHANGED <<out, last, nth>>
    /\ UNCHANGED <<variant, content, src, phase, r, calls, once>>
    /\ UNCHANGED libVars

\* r.rd.Read(buf) begins
ConcReadBegin(t) ==
    /\ phase = "ready"
    /\ thr[t].pc = "read"
    /\ Goto(t, "reading")
    /\ UNCHANGED <<variant, content, src, phase, r, out, last, nth, calls, once>>
    /\ UNCHANGED libVars

\* r.rd.Read(buf) ends.  While another goroutine is inside r.rd.Read as well
\* the two race on the underlying reader: what this one wrote to it may or
\* may not survive
ConcReadEnd(t) ==
    /\ phase = "ready"
    /\ thr[t].pc = "reading"
    /\ \E res \in {IF variant = "bufio"
                   THEN bufioRead(r.rd, src, thr[t].k)
                   ELSE SrcRead(src, thr[t].k)} :
       \E lost \in IF \E u \in Threads : u # t /\ thr[u].pc = "reading"
                   THEN BOOLEAN ELSE {FALSE} :
           /\ IF lost
              THEN UNCHANGED <<r, src>>
              ELSE /\ src' = res.src
                   /\ r' = IF variant = "bufio" THEN [r EXCEPT !.rd = res.b] ELSE r
           /\ Return(t, res.n, res.bytes, res.err)
           /\ calls' = IF variant = "bufio" THEN res.calls ELSE 1
    /\ UNCHANGED <<variant, content, phase, once>>
    /\ UNCHANGED libVars

ConcNext ==
    \E t \in Threads :
        \/ \E k \in ConcCaps : ConcCall(t, k)
        \/ ConcDo(t)
        \/ ConcLock(t)
        \/ ConcCheck(t)
        \/ ConcBody(t)
        \/ ConcStore(t)
        \/ ConcUnlock(t)
        \/ ConcAfter(t)
        \/ ConcReadBegin(t)
        \/ ConcReadEnd(t)

ConcSpec == ConcInit /\ [][ConcNext]_vars

(***************************************************************************)
(* readBOM's loop over a source that is free to answer each Read(p) with   *)
(* any n in 0..len(p) and any error (utfbom.go).  Each pass hands the loop *)
(* body a source that gives the chosen answer.                             *)
(***************************************************************************)
\* a source whose next Read returns n bytes and err
AnswerSource(n, err) ==
    IF n = 0 /\ err = NoErr THEN Source(<<0>>, 1, FALSE, EOF, 1)
    ELSE IF n = 0 THEN Source(<<>>, 1, FALSE, err, 0)
    ELSE IF err = NoErr THEN Source(Zeros(n + 1), n, FALSE, EOF, 0)
    ELSE Source(Zeros(n), n, TRUE, err, 0)

BomInit ==
    /\ variant = "readBOM"
    /\ phase = "loop"
    /\ bom = NoBOM
    /\ src = zeroReader
    /\ content = <<>>
    /\ r = NoReader
    /\ out = <<>>
    /\ last = NoCall
    /\ nth = 0
    /\ calls = 0
    /\ callerBuf = <<>>
    /\ call = NoLibCall
    /\ thr = NoThreads
    /\ once = NewOnce

\* one pass of `for ...; err == nil && len(buf) < maxBOMSize; ...`, the source
\* answering (n, err); `last` keeps the answer
BomPass(n, err) ==
    /\ phase = "loop"
    /\ bom.err = NoErr /\ Len(bom.buf) < maxBOMSize
    /\ n <= maxBOMSize - Len(bom.buf)
    /\ \E st \in {readBOMBody([bom EXCEPT !.src = AnswerSource(n, err)])} :
           bom' = [st EXCEPT !.src = zeroReader]
    /\ last' = [NoCall EXCEPT !.op = "srcRead", !.cap = maxBOMSize - Len(bom.buf),
                              !.n = n, !.err = err]
    /\ UNCHANGED <<variant, content, src, phase, r, out, nth, calls, callerBuf, call>>
    /\ UNCHANGED concVars

\* the loop condition fails: readBOM returns buf and err
BomReturn ==
    /\ phase = "loop"
    /\ ~(bom.err = NoErr /\ Len(bom.buf) < maxBOMSize)
    /\ phase' = "returned"
    /\ calls' = bom.calls
    /\ UNCHANGED <<variant, content, src, r, out, last, nth, callerBuf, call, bom>>
    /\ UNCHANGED concVars

BomNext ==
    \/ \E n \in 0..maxBOMSize, err \in {NoErr} \cup FinalErrors : BomPass(n, err)
    \/ BomReturn

BomSpec == BomInit /\ [][BomNext]_vars

(***************************************************************************)
(* Vocabulary of the properties.                                           *)
(***************************************************************************)
\* the encoding whose marker is the longest marker that starts c
MarkerOf(c) ==
    IF \E e \in Encodings : HasPrefix(c, Marker(e))
    THEN CHOOSE e \in Encodings :
            /\ HasPrefix(c, Marker(e))
            /\ \A f \in Encodings :
                  HasPrefix(c, Marker(f)) => Len(Marker(f)) <= Len(Marker(e))
    ELSE Unknown

\* the content without its marker
Payload == Drop(content, Len(Marker(MarkerOf(content))))

\* the source never answers (0, nil) and ends with end-of-data
PlainEOF == src.gap = 0 /\ src.fin = EOF

\* the lookahead has run
Detected == phase = "ready" /\ (variant = "skip" \/ r.once)

\* the latest call was a Read with a non-empty buffer
NonEmptyRead == last.op = "Read" /\ last.cap > 0

\* the latest call was the first Read with a non-empty buffer
FirstRead == NonEmptyRead /\ nth = 1

\* the latest call was a Read that reported end-of-data
EndOfData == last.op = "Read" /\ Is(last.err, EOF)

(***************************************************************************)
(* C1: streaming equivalence.  For every encoding E and payload p, a       *)
(* Reader over a source whose content is E's marker followed by p and that *)
(* ends with end-of-data reports E once the first Read has run and has     *)
(* delivered exactly p when it reports end-of-data -- for every chunking   *)
(* of the source -- unless E is UTF16LittleEndian and p starts with 00 00, *)
(* where the content starts with the longer UTF32LittleEndian marker.      *)
(***************************************************************************)
C1_Case(e) ==
    /\ PlainEOF
    /\ HasPrefix(content, Marker(e))

C1_Holds(e) ==
    /\ nth >= 1 => Enc = e
    /\ EndOfData => out = Drop(content, Len(Marker(e)))

C1_StreamingEquivalence ==
    \A e \in Encodings :
        C1_Case(e) /\ ~(e = UTF16LittleEndian /\ HasPrefix(content, utf32LEBOM))
            => C1_Holds(e)

\* C1 as stated: every encoding and every payload, the source delivering one
\* byte per call or everything in one call
C1_AsStated ==
    \A e \in Encodings :
        C1_Case(e) /\ src.chunk \in {1, defaultBufSize} => C1_Holds(e)

C1_Witness ==
    /\ variant = "bufio"
    /\ src.chunk = 1
    /\ PlainEOF
    /\ content = utf8BOM \o <<104, 0>>
    /\ EndOfData
    /\ out = <<104, 0>>
    /\ Enc = UTF8

(***************************************************************************)
(* C2: no-marker passthrough.  When the content starts with no marker,     *)
(* a Reader read to end-of-data has delivered every source byte, in order  *)
(* and unchanged, and reports Unknown.                                     *)
(***************************************************************************)
C2_NoMarkerPassthrough ==
    (\A e \in Encodings : ~HasPrefix(content, Marker(e))) /\ EndOfData
        => out = content /\ Enc = Unknown

C2_Witness ==
    /\ \A e \in Encodings : ~HasPrefix(content, Marker(e))
    /\ Len(content) >= 3
    /\ EndOfData
    /\ out = content

(***************************************************************************)
(* C3: no marker byte is ever delivered.  At every point the bytes         *)
(* delivered so far are a prefix of the content without the first bytes    *)
(* that make up the marker of the detected encoding.                       *)
(***************************************************************************)
C3_NoMarkerByteDelivered ==
    IsPrefixOf(out, Drop(content, Len(Marker(Enc))))

C3_Witness ==
    /\ Enc = UTF32LittleEndian
    /\ NonEmptyRead
    /\ last.cap = 1
    /\ out = <<104, 0>>

(***************************************************************************)
(* C4: a Read with a zero-length buffer returns (0, nil) and changes       *)
(* nothing: it makes no source call, leaves the Reader (its detection      *)
(* state, Enc, retained bytes, stored error) and the source as they were   *)
(* and delivers nothing.                                                   *)
(***************************************************************************)
C4_Step ==
    last'.op = "Read" /\ last'.cap = 0
        => /\ last'.n = 0
           /\ last'.err = NoErr
           /\ calls' = 0
           /\ r' = r
           /\ src' = src
           /\ out' = out
           /\ nth' = nth

C4_ZeroLengthReadIsNoOp == [][C4_Step]_vars

C4_Witness ==
    /\ variant = "bufio"
    /\ last.op = "Read"
    /\ last.cap = 0
    /\ ~r.once
    /\ Len(content) > 0

(***************************************************************************)
(* C5: the first Read needs no minimum buffer size.  Over a source that    *)
(* ends with end-of-data, the first Read with a buffer of any size >= 1    *)
(* (1, 2 and 3 included) has run the detection, reports the encoding of the *)
(* content's marker and delivers the first bytes of the payload (at least  *)
(* one when there is a payload), never a marker byte; the Reads together   *)
(* deliver exactly the payload by the time end-of-data is reported.        *)
(***************************************************************************)
C5_NoMinimumDestinationSize ==
    PlainEOF =>
        /\ FirstRead =>
              /\ Detected
              /\ Enc = MarkerOf(content)
              /\ last.n <= last.cap
              /\ out = Take(Payload, last.n)
              /\ Payload # <<>> => last.n >= 1
              /\ last.err \in {NoErr, EOF}
        /\ NonEmptyRead => IsPrefixOf(out, Payload)
        /\ EndOfData => out = Payload

C5_Witness ==
    /\ variant = "bufio"
    /\ PlainEOF
    /\ FirstRead
    /\ last.cap = 1
    /\ content = utf32BEBOM \o <<104, 0>>
    /\ Enc = UTF32BigEndian
    /\ out = <<104>>

(***************************************************************************)
(* C6: a source whose every Read returns (0, nil) does not make the Reader *)
(* loop forever.  The lookahead gives up after maxConsecutiveEmptyReads    *)
(* source calls that returned nothing, the detected encoding is Unknown,   *)
(* and the first Read with a non-empty buffer returns 0 bytes and an error *)
(* that matches io.ErrNoProgress.                                          *)
(***************************************************************************)
C6_ZeroReaderStops ==
    src.gap = Forever =>
        /\ Detected => Enc = Unknown
        /\ last.op = "Skip" => calls = maxConsecutiveEmptyReads
        /\ FirstRead =>
              /\ last.n = 0
              /\ Is(last.err, ErrNoProgress)
              /\ out = <<>>
              /\ calls = IF variant = "skip" THEN 0 ELSE maxConsecutiveEmptyReads

C6_Witness ==
    /\ src.gap = Forever
    /\ variant = "skip"
    /\ FirstRead
    /\ last.err = ErrNoProgress
    /\ last.n = 0
    /\ Enc = Unknown

C8_Step ==
    /\ variant = "bufio"
    /\ PlainEOF
    /\ content # <<>>
    /\ Len(content) < maxBOMLen
    /\ last'.op = "Read"
    /\ last'.cap > 0
    => /\ nth = 0 =>
             /\ last'.n = 0
             /\ Is(last'.err, EOF)
             /\ Is(last'.err, ErrRead)
       /\ nth = 1 /\ FirstRead /\ Payload # <<>> =>
             /\ last'.n >= 1
             /\ last'.err = NoErr

C8_ShortSourceFailsFirstRead == [][C8_Step]_vars

(***************************************************************************)
(* C9: errors of the lookahead.  In the bufio-based Reader, a source error *)
(* other than io.EOF and io.ErrUnexpectedEOF that keeps the first Read's   *)
(* lookahead from getting its maxBOMLen bytes is returned by that Read     *)
(* with 0 bytes, matching ErrRead and the source's error.  Whatever Read   *)
(* returns an error matching ErrRead is the first one, returns 0 bytes and *)
(* the error matches the source's error or io.ErrNoProgress.  When the     *)
(* source supplies maxBOMLen bytes or more, no Read returns an error that  *)
(* matches ErrRead: an error that came with the bytes that completed the   *)
(* lookahead is returned as the source produced it.                        *)
(***************************************************************************)
C9_LookaheadErrorTagged ==
    variant = "bufio" /\ NonEmptyRead =>
        /\ ( /\ FirstRead
             /\ Len(content) < maxBOMLen
             /\ src.gap = 0
             /\ src.fin \notin {EOF, ErrUnexpectedEOF} )
           => /\ last.n = 0
              /\ out = <<>>
              /\ Is(last.err, ErrRead)
              /\ Is(last.err, src.fin)
        /\ Is(last.err, ErrRead) =>
              /\ FirstRead
              /\ last.n = 0
              /\ out = <<>>
              /\ Is(last.err, src.fin) \/ Is(last.err, ErrNoProgress)
        /\ Len(content) >= maxBOMLen /\ src.gap = 0 =>
              /\ ~Is(last.err, ErrRead)
              /\ last.err \in {NoErr, src.fin}

\* the source as it was before the first call
FirstLookahead ==
    bufioPeek(bufioNewReader, [src EXCEPT !.data = content, !.stall = src.gap],
              maxBOMLen)

\* C9 as stated: whenever the source returned an error other than
\* end-of-data to the lookahead of the first Read, that Read returns 0 bytes
\* and an error matching ErrRead and the source's error
C9_AsStated ==
    variant = "bufio" /\ FirstRead =>
        \A e \in {FirstLookahead.err, FirstLookahead.b.err} :
            e = src.fin /\ e \notin {EOF, ErrUnexpectedEOF}
                => /\ last.n = 0
                   /\ Is(last.err, ErrRead)
                   /\ Is(last.err, e)

C9_Witness ==
    /\ variant = "bufio"
    /\ FirstRead
    /\ content = <<239, 187>>
    /\ src.fin = ErrClosedPipe
    /\ last.n = 0
    /\ last.err = Join(ErrRead, ErrClosedPipe)

(***************************************************************************)
(* C10: errors of the pass-through reads.  Once detection has completed,   *)
(* an error the source produces reaches the caller as the source produced  *)
(* it, never joined with ErrRead.  The Skip-based Reader returns what the  *)
(* source's Read returned, byte count and error.  The bufio-based Reader,  *)
(* read with a buffer shorter than defaultBufSize, returns the source's    *)
(* error from the same Read only when it came with no bytes; when it came  *)
(* with bytes, Read returns bytes and a nil error, the error is held, and  *)
(* the Read that finds no buffered byte left returns it with 0 bytes.      *)
(***************************************************************************)
\* the Reader has nothing of the lookahead left and reads from the source
PassThrough ==
    /\ phase = "ready"
    /\ IF variant = "skip" THEN r.buf.nil /\ r.err = NoErr ELSE r.once

\* the step is a Read with a non-empty buffer
ReadStep == last'.op = "Read" /\ last'.cap > 0

\* the lookahead is over: the Reader delivers what it retains, then reads on
PassThroughOrRetained == phase = "ready" /\ (variant = "skip" \/ r.once)

C10_Step ==
    PassThrough /\ ReadStep =>
        /\ ~Is(last'.err, ErrRead)
        /\ IF variant = "skip"
           THEN LET sr == SrcRead(src, last'.cap)
                IN  /\ calls' = 1
                    /\ last'.n = sr.n
                    /\ last'.err = sr.err
                    /\ out' = out \o sr.bytes
           ELSE IF r.rd.buf # <<>>
           THEN /\ calls' = 0
                /\ last'.n >= 1
                /\ last'.err = NoErr
                /\ r'.rd.err = r.rd.err
           ELSE IF r.rd.err # NoErr
           THEN /\ calls' = 0
                /\ last'.n = 0
                /\ last'.err = r.rd.err
                /\ r'.rd.err = NoErr
           ELSE LET sr == SrcRead(src, defaultBufSize)
                IN  /\ calls' = 1
                    /\ last'.n = Min(last'.cap, sr.n)
                    /\ last'.err = IF sr.n = 0 THEN sr.err ELSE NoErr
                    /\ r'.rd.err = IF sr.n = 0 THEN NoErr ELSE sr.err

C10_PassThroughErrorUnmodified == [][C10_Step]_vars

\* C10 as stated: a pass-through Read during which the source produced an
\* error returns that error together with the source's byte count
C10_StepAsStated ==
    PassThrough /\ ReadStep /\ calls' = 1 =>
        LET sr == SrcRead(src, IF variant = "skip" THEN last'.cap
                               ELSE defaultBufSize)
        IN  sr.err # NoErr => last'.err = sr.err /\ last'.n = sr.n

C10_AsStated == [][C10_StepAsStated]_vars

C10_Witness ==
    /\ variant = "bufio"
    /\ src.fin = ErrClosedPipe
    /\ src.eager
    /\ NonEmptyRead
    /\ nth >= 2
    /\ last.n = 0
    /\ last.err = ErrClosedPipe
    /\ out = <<104, 0>>
    /\ content = utf16LEBOM \o <<104, 0>>

(***************************************************************************)
(* C11: Enc is assigned once.  The Reader's Enc is Unknown until the       *)
(* detection has run; the bufio-based Reader runs it in its first Read     *)
(* with a non-empty buffer and in no other call (Skip runs it for the      *)
(* Skip-based Reader); once it has run, no later call changes Enc or       *)
(* brings the Reader back to the state before detection.                   *)
(***************************************************************************)
C11_Step ==
    IF variant = "bufio"
    THEN /\ ~r.once => r.Enc = Unknown
         /\ r'.once <=> (r.once \/ ReadStep)
         /\ r.once => r'.Enc = r.Enc
    ELSE /\ phase = "new" => r.enc = Unknown
         /\ phase = "ready" => phase' = "ready" /\ r'.enc = r.enc

C11_EncAssignedOnce == [][C11_Step]_vars

C11_Witness ==
    /\ variant = "bufio"
    /\ r.once
    /\ Enc = UTF8
    /\ NonEmptyRead
    /\ nth >= 2
    /\ out = <<104>>

(***************************************************************************)
(* C12: however the Read calls of several goroutines on one Reader (each   *)
(* with a non-empty buffer) interleave, the function handed to once.Do     *)
(* (peek, detect, discard) runs at most once, no two goroutines are inside *)
(* it together, and no goroutine is at or inside its read of the           *)
(* underlying reader unless that one run has returned.                     *)
(***************************************************************************)
InLookahead(t) == thr[t].pc \in {"body", "store"}

InPassThrough(t) == thr[t].pc \in {"read", "reading"}

C12_LookaheadRunsOnceBeforeReads ==
    /\ once.ran <= 1
    /\ \A t, u \in DOMAIN thr : InLookahead(t) /\ InLookahead(u) => t = u
    /\ \A t \in DOMAIN thr :
           InPassThrough(t) =>
               /\ once.ran = 1
               /\ once.done
               /\ ~once.running
               /\ \A u \in DOMAIN thr : ~InLookahead(u)

\* one goroutine is inside its read of the underlying reader while another,
\* which saw the flag still 0 on its fast path, holds the mutex
C12_Witness ==
    /\ once.ran = 1
    /\ \E t, u \in DOMAIN thr :
           /\ thr[t].pc = "reading"
           /\ thr[u].pc = "locked"

(***************************************************************************)
(* C13: DetectEncoding returns, for every buffer, the encoding whose       *)
(* marker is the longest marker the buffer starts with, and Unknown when   *)
(* it starts with none.  A buffer that starts with FF FE 00 00 gives       *)
(* UTF32LittleEndian, never UTF16LittleEndian; one that starts with        *)
(* 00 00 FE FF gives UTF32BigEndian.                                       *)
(***************************************************************************)
DetectCalled == call.op \in {"DetectEncoding", "DetectEncodingByIndex"}

C13_LongestMarkerWins ==
    DetectCalled =>
        /\ call.enc = MarkerOf(call.arg)
        /\ (\A e \in Encodings : ~HasPrefix(call.arg, Marker(e))) => call.enc = Unknown
        /\ HasPrefix(call.arg, utf32LEBOM) => call.enc = UTF32LittleEndian
        /\ HasPrefix(call.arg, utf32BEBOM) => call.enc = UTF32BigEndian

C13_Witness ==
    /\ call.op = "DetectEncoding"
    /\ call.arg = utf32LEBOM \o <<104>>
    /\ call.enc = UTF32LittleEndian

(***************************************************************************)
(* C14: DetectEncoding returns Unknown for the empty buffer and for every  *)
(* buffer of one byte; it does not panic on them.                          *)
(***************************************************************************)
C14_ShortInputIsUnknown ==
    DetectCalled /\ Len(call.arg) < 2 => call.enc = Unknown /\ call.enc # Panic

C14_Witness ==
    /\ call.op = "DetectEncodingByIndex"
    /\ call.arg = <<254>>
    /\ call.enc = Unknown

(***************************************************************************)
(* C15: Trim(b) returns E = DetectEncoding(b) and b without its first      *)
(* E.Len() bytes, which are E's marker; when E is Unknown it returns b     *)
(* as it is.                                                               *)
(***************************************************************************)
C15_TrimRemovesMarker ==
    call.op = "Trim" =>
        /\ call.enc = DetectEncoding(call.arg)
        /\ call.out = Drop(call.arg, Len(Marker(call.enc)))
        /\ Marker(call.enc) \o call.out = call.arg
        /\ call.enc = Unknown => call.out = call.arg

C15_Witness ==
    /\ call.op = "Trim"
    /\ call.arg = utf8BOM \o <<104>>
    /\ call.out = <<104>>
    /\ call.enc = UTF8

(***************************************************************************)
(* C16: round trip.  For every encoding E other than Unknown and every     *)
(* payload p that starts with no marker, Trim of E's marker followed by p  *)
(* returns (p, E) -- unless E is UTF16LittleEndian and p starts with       *)
(* 00 00, where the buffer starts with the UTF32LittleEndian marker.       *)
(***************************************************************************)
\* the buffer Trim was given is e's marker followed by a payload without marker
C16_Case(e) ==
    /\ call.op = "Trim"
    /\ HasPrefix(call.arg, Marker(e))
    /\ MarkerOf(Drop(call.arg, Len(Marker(e)))) = Unknown

C16_Holds(e) ==
    /\ call.out = Drop(call.arg, Len(Marker(e)))
    /\ call.enc = e

C16_RoundTrip ==
    \A e \in Encodings :
        C16_Case(e) /\ ~(e = UTF16LittleEndian /\ HasPrefix(call.arg, utf32LEBOM))
            => C16_Holds(e)

\* C16 as stated: every encoding and every payload without a marker
C16_AsStated == \A e \in Encodings : C16_Case(e) => C16_Holds(e)

C16_Witness ==
    /\ call.op = "Trim"
    /\ call.arg = utf16LEBOM \o <<0, 104>>
    /\ call.out = <<0, 104>>
    /\ call.enc = UTF16LittleEndian

(***************************************************************************)
(* C17: Trim does not modify the buffer it is given: after the call every  *)
(* byte of the buffer, the marker included, is what it was before.         *)
(***************************************************************************)
C17_TrimLeavesInputIntact ==
    call.op = "Trim" => callerBuf = call.arg

C17_Witness ==
    /\ call.op = "Trim"
    /\ call.enc = UTF32BigEndian
    /\ call.out = <<104>>
    /\ callerBuf = utf32BEBOM \o <<104>>

(***************************************************************************)
(* C18: Encoding.Len returns 3 for UTF8, 2 for UTF16BigEndian and          *)
(* UTF16LittleEndian, 4 for UTF32BigEndian and UTF32LittleEndian, and 0    *)
(* for Unknown and for every value that is none of the constants.          *)
(***************************************************************************)
C18_LenTable ==
    call.op = "Len" =>
        /\ call.arg = UTF8 => call.n = 3
        /\ call.arg \in {UTF16BigEndian, UTF16LittleEndian} => call.n = 2
        /\ call.arg \in {UTF32BigEndian, UTF32LittleEndian} => call.n = 4
        /\ call.arg \notin Encodings => call.n = 0
        /\ call.n = Len(Marker(call.arg))

C18_Witness ==
    /\ call.op = "Len"
    /\ call.arg = "Encoding(999)"
    /\ call.n = 0

(***************************************************************************)
(* C19: progress or an error.  Over a source that never returns (0, nil),  *)
(* every Read with a non-empty buffer returns at least one byte or a       *)
(* non-nil error.  Over any source, a Read returns (0, nil) only when its  *)
(* last source call, a pass-through call made after the lookahead,         *)
(* returned (0, nil) itself; the empty reads of the lookahead are bounded: *)
(* no call makes more than maxBOMLen * maxConsecutiveEmptyReads + 1 source *)
(* calls.                                                                  *)
(***************************************************************************)
\* the latest Read returned 0 bytes and a nil error
EmptyHanded == NonEmptyRead /\ last.n = 0 /\ last.err = NoErr

C19_ProgressOrError ==
    /\ src.gap = 0 => ~EmptyHanded
    /\ EmptyHanded =>
          /\ calls >= 1
          /\ src.gap = Forever \/ src.stall < src.gap
          /\ Detected
          /\ IF variant = "skip" THEN r.buf.nil /\ r.err = NoErr
             ELSE r.rd.buf = <<>> /\ r.rd.err = NoErr
    /\ calls <= maxBOMLen * maxConsecutiveEmptyReads + 1

\* C19 as stated: no Read with a non-empty buffer returns (0, nil)
C19_AsStated == ~EmptyHanded

C19_Witness ==
    /\ variant = "bufio"
    /\ src.gap = maxConsecutiveEmptyReads - 1
    /\ content = utf32LEBOM \o <<104>>
    /\ FirstRead
    /\ EmptyHanded
    /\ Enc = UTF32LittleEndian

(***************************************************************************)
(* C20: no source error is swallowed.  An error the source returns to the  *)
(* lookahead reaches the caller: from the Read in progress, or from the    *)
(* Read that follows the last byte obtained before it.                     *)
(*   - Skip keeps the error readBOM ended with (the source's, or           *)
(*     io.ErrNoProgress in its place); the Reader returns it, with 0       *)
(*     bytes, as soon as its retained bytes are delivered.                 *)
(*   - The bufio-based Reader returns an error that fails Peek from the    *)
(*     Read in progress; an error bufio holds behind buffered bytes is     *)
(*     kept while they are delivered and returned next; io.EOF and         *)
(*     io.ErrUnexpectedEOF met by Peek are not kept, the source being at   *)
(*     its end returns them again to the next source call.                 *)
(*   - The scratch-buffer Reader returns it from the Read in progress.     *)
(* Once the source is at its end and nothing is retained, every Read with  *)
(* a non-empty buffer returns the source's error.                          *)
(***************************************************************************)
\* the source has nothing left but its final error, which it returns to
\* every call
AtEnd(s) == s.data = <<>> /\ s.stall = 0

\* the Reader retains bytes for the caller
Retains ==
    CASE variant = "skip" -> ~r.buf.nil
      [] variant = "bufio" -> r.rd.buf # <<>>
      [] OTHER -> FALSE

\* the error the Reader keeps for a later Read
Kept(rr) ==
    CASE variant = "skip" -> rr.err
      [] variant = "bufio" -> rr.rd.err
      [] OTHER -> NoErr

C20_SkipStep ==
    last'.op = "Skip" =>
        /\ r'.err = readBOM(src).err
        /\ r'.err \in {NoErr, src.fin, ErrNoProgress}
        /\ AtEnd(src') /\ src.gap = 0 /\ src.eager => r'.err = src.fin

C20_LookaheadStep ==
    ReadStep /\ variant # "skip" /\ ~r.once =>
        IF variant = "bufio"
        THEN LET pk == bufioPeek(r.rd, src, maxBOMLen)
             IN  /\ pk.err # NoErr =>
                       \/ last'.n = 0 /\ Is(last'.err, pk.err)
                       \/ pk.err \in {EOF, ErrUnexpectedEOF} /\ AtEnd(src')
                 /\ pk.b.err # NoErr =>
                       \/ last'.n >= 1 /\ r'.rd.err = pk.b.err
                       \/ last'.n = 0 /\ last'.err = pk.b.err
        ELSE last'.cap >= maxBOMLen /\ last'.op = "Read" =>
                LET sr == SrcRead(src, last'.cap)
                IN  sr.err # NoErr => last'.n = 0 /\ Is(last'.err, sr.err)

C20_LaterStep ==
    ReadStep /\ PassThroughOrRetained =>
        IF Retains
        THEN /\ last'.n >= 1
             /\ last'.err = NoErr
             /\ Kept(r') = Kept(r)
        ELSE IF Kept(r) # NoErr
        THEN /\ last'.n = 0
             /\ last'.err = Kept(r)
        ELSE AtEnd(src) => last'.n = 0 /\ last'.err = src.fin

FinalBytesWithError == src.eager /\ src.gap = 0 /\ content # <<>>

\* the latest call was a Read that reported the source's final error
FinalErrorReported == last.op = "Read" /\ Is(last.err, src.fin)

C21_FinalBytesDelivered ==
    FinalBytesWithError /\ FinalErrorReported
        => out = Drop(content, Len(Marker(Enc)))

(***************************************************************************)
(* C22: source calls after detection.  Once the lookahead is over, a Read  *)
(* with a non-empty buffer calls the source's Read at most once and never  *)
(* retries: not at all while the Reader still retains bytes or an error of *)
(* the lookahead (it returns those), exactly once when it retains neither. *)
(***************************************************************************)
C22_Step ==
    ReadStep /\ PassThroughOrRetained =>
        calls' = IF Retains \/ Kept(r) # NoErr THEN 0 ELSE 1

C22_StepAsStated == ReadStep /\ PassThroughOrRetained => calls' = 1

C23_Step ==
    last'.op = "SkipReader" =>
        /\ r' = r
        /\ last'.enc = r.enc
        /\ src' = src
        /\ calls' = 0
        /\ out' = out
        /\ \A k \in 1..MaxCap :
               SkipReaderRead(r', src', k) = SkipReaderRead(r, src, k)

C23_SkipOfReaderIsIdempotent == [][C23_Step]_vars

\* Skip of a Reader that has delivered one of the bytes it retained
C23_Witness ==
    /\ last.op = "SkipReader"
    /\ last.enc = UTF16BigEndian
    /\ content = utf16BEBOM \o <<104, 0>>
    /\ out = <<104>>
    /\ r.buf = Slice(<<0>>)

(***************************************************************************)
(* C24: Skip over a source that fails right after its last byte, within    *)
(* the lookahead.  When the error is not io.EOF, a complete UTF-8 or       *)
(* UTF-32 marker is detected and stripped, while a UTF-16 marker or an     *)
(* incomplete marker gives Unknown and every byte read is delivered        *)
(* unchanged; when it is io.EOF the UTF-16 markers are detected and        *)
(* stripped as well.  The error is returned after the bytes.               *)
(***************************************************************************)
\* Skip's lookahead meets the source's final error: the content does not
\* fill the window, or fills it exactly and its last byte comes with the error
ErrorInLookahead ==
    /\ variant = "skip"
    /\ phase = "ready"
    /\ src.gap = 0
    /\ \/ Len(content) < maxBOMSize
       \/ Len(content) = maxBOMSize /\ src.eager

\* what Skip is to detect over the content when the lookahead met src.fin
C24_Expected ==
    IF src.fin = EOF \/ MarkerOf(content) \in {UTF8, UTF32BigEndian, UTF32LittleEndian}
    THEN MarkerOf(content)
    ELSE Unknown

C24_SkipUnderError ==
    ErrorInLookahead =>
        /\ Enc = C24_Expected
        /\ last.op = "Skip" =>
              /\ last.enc = C24_Expected
              /\ r.buf.b = Drop(content, Len(Marker(C24_Expected)))
              /\ r.err = src.fin
        /\ FinalErrorReported => out = Drop(content, Len(Marker(C24_Expected)))

\* a UTF-16 marker followed by io.ErrClosedPipe: Unknown, both bytes
\* delivered, then the error
C24_Witness ==
    /\ ErrorInLookahead
    /\ content = utf16BEBOM
    /\ src.fin = ErrClosedPipe
    /\ FinalErrorReported
    /\ Enc = Unknown
    /\ out = utf16BEBOM

(***************************************************************************)
(* C25: the order in which a Reader made by Skip serves its Reads (with a  *)
(* non-empty buffer).  While it retains bytes of the lookahead a Read      *)
(* returns the next of them, at least one, with a nil error and without a  *)
(* source call, and keeps the stored error.  The first Read that finds     *)
(* nothing retained returns the stored error, if there is one, with 0      *)
(* bytes and without a source call, and clears it.  Every Read after that  *)
(* is one Read of the source, returned as it is; nothing is retained or    *)
(* stored again.                                                           *)
(***************************************************************************)
C25_Step ==
    ReadStep /\ variant = "skip" /\ phase = "ready" =>
        IF ~r.buf.nil
        THEN /\ last'.n = Min(last'.cap, Len(r.buf.b))
             /\ last'.n >= 1
             /\ last'.err = NoErr
             /\ out' = out \o Take(r.buf.b, last'.n)
             /\ r'.buf = nilIfEmpty(Slice(Drop(r.buf.b, last'.n)))
             /\ r'.err = r.err
             /\ calls' = 0
             /\ src' = src
        ELSE IF r.err # NoErr
        THEN /\ last'.n = 0
             /\ last'.err = r.err
             /\ out' = out
             /\ r'.buf.nil
             /\ r'.err = NoErr
             /\ calls' = 0
             /\ src' = src
        ELSE /\ calls' = 1
             /\ last'.n = SrcRead(src, last'.cap).n
             /\ last'.err = SrcRead(src, last'.cap).err
             /\ out' = out \o SrcRead(src, last'.cap).bytes
             /\ r' = r

C25_RetainedThenErrorThenSource == [][C25_Step]_vars

\* two retained bytes delivered, the stored io.EOF returned, and the source
\* asked by the Read after that
C25_Witness ==
    /\ variant = "skip"
    /\ content = <<104, 0>>
    /\ src.gap = 0
    /\ nth >= 2
    /\ NonEmptyRead
    /\ out = content
    /\ last.err = EOF
    /\ calls = 1
    /\ r.buf.nil
    /\ r.err = NoErr

(***************************************************************************)
(* C26: empty reads during Skip's lookahead.  readBOM ends with            *)
(* io.ErrNoProgress only when the source answered (0, nil) 100 times in a  *)
(* row; over a source that answers (0, nil) fewer than 100 times in a row  *)
(* before and between its bytes, Skip detects and retains what it detects  *)
(* and retains over the same source without the empty answers.             *)
(***************************************************************************)
\* the source without its (0, nil) answers
WithoutEmptyReads == [src EXCEPT !.data = content, !.gap = 0, !.stall = 0]

\* the source never answers (0, nil) 100 times in a row
FewEmptyReads == src.gap >= 0 /\ src.gap < maxConsecutiveEmptyReads

C26_EmptyReadsAreTransparent ==
    variant = "skip" /\ last.op = "Skip" =>
        /\ r.err = ErrNoProgress => ~FewEmptyReads
        /\ FewEmptyReads =>
              /\ r.enc = SkipNew(WithoutEmptyReads).r.enc
              /\ r.buf = SkipNew(WithoutEmptyReads).r.buf

(***************************************************************************)
(* C27: a failed lookahead is final.  When the Peek of the first Read with *)
(* a non-empty buffer fails with an error other than io.EOF and            *)
(* io.ErrUnexpectedEOF, Enc is Unknown from then on, every later Read      *)
(* returns what the Read of the buffered source returns, and the bytes     *)
(* delivered are the source's bytes from the first on, marker bytes        *)
(* included: all of them once the source's final error is returned.        *)
(***************************************************************************)
\* the Peek of the lookahead fails: before 4 bytes are there the source
\* answers (0, nil) 100 times in a row, or returns an error other than
\* io.EOF and io.ErrUnexpectedEOF
LookaheadFails ==
    /\ variant = "bufio"
    /\ \/ ~FewEmptyReads
       \/ Len(content) < maxBOMLen /\ src.fin \notin {EOF, ErrUnexpectedEOF}

C27_Step ==
    variant = "bufio" /\ ReadStep /\ LookaheadFails =>
        /\ r'.once
        /\ r'.Enc = Unknown
        /\ IsPrefixOf(out', content)
        /\ last'.err = src.fin => out' = content
        /\ r.once =>
              \E rd \in {bufioRead(r.rd, src, last'.cap)} :
                  /\ last'.n = rd.n
                  /\ last'.err = rd.err
                  /\ out' = out \o rd.bytes
                  /\ r'.rd = rd.b

C27_FailedLookaheadIsFinal == [][C27_Step]_vars

\* a UTF-16 marker followed by io.ErrClosedPipe: the marker is delivered
C27_Witness ==
    /\ LookaheadFails
    /\ content = utf16BEBOM
    /\ src.fin = ErrClosedPipe
    /\ NonEmptyRead
    /\ last.err = ErrClosedPipe
    /\ Enc = Unknown
    /\ out = utf16BEBOM

(***************************************************************************)
(* C28: the Readers refine Trim.  Over a source that delivers its content  *)
(* and then end-of-data, whatever its chunking and whatever the (positive) *)
(* sizes of the caller's buffers, the encoding a Reader reports once its   *)
(* lookahead has run and the bytes it has delivered when it reports        *)
(* end-of-data are the pair Trim returns for the whole content; what       *)
(* DetectEncoding finds in the first 4 bytes is what it finds in the       *)
(* whole content.                                                          *)
(***************************************************************************)
C28_ReaderRefinesTrim ==
    PlainEOF /\ variant \in Variants =>
        /\ DetectEncoding(Take(content, maxBOMLen)) = DetectEncoding(content)
        /\ Detected => Enc = Trim(content).enc
        /\ EndOfData => out = Trim(content).out /\ Enc = Trim(content).enc

\* FF FE 00 from a source that hands out one byte per call: UTF-16, one
\* byte of payload
C28_Witness ==
    /\ variant = "skip"
    /\ PlainEOF
    /\ src.chunk = 1
    /\ content = <<255, 254, 0>>
    /\ Trim(content).enc = UTF16LittleEndian
    /\ EndOfData
    /\ Enc = UTF16LittleEndian
    /\ out = <<0>>

(***************************************************************************)
(* C29: Skip does not over-read.  Skip takes at most 4 bytes from the      *)
(* source, also from a source that hands out as many bytes as it is asked  *)
(* for, and the bytes it took are the marker it detected followed by the   *)
(* bytes the Reader retains: none of them is lost.                         *)
(***************************************************************************)
C29_Step ==
    last'.op = "Skip" =>
        LET consumed == Len(src.data) - Len(src'.data)
        IN  /\ consumed <= maxBOMSize
            /\ consumed = Len(Marker(r'.enc)) + Len(r'.buf.b)
            /\ Take(content, consumed) = Marker(r'.enc) \o r'.buf.b
            /\ src'.data = Drop(content, consumed)

C29_SkipTakesFourBytesAtMost == [][C29_Step]_vars

\* five bytes on offer at once: Skip takes four, retains one
C29_Witness ==
    /\ last.op = "Skip"
    /\ src.chunk = defaultBufSize
    /\ content = utf8BOM \o <<104, 0>>
    /\ r.enc = UTF8
    /\ r.buf = Slice(<<104>>)
    /\ src.data = <<0>>

(***************************************************************************)
(* C30: readBOM terminates.  Whatever the source answers to each Read (any *)
(* n from 0 to the bytes asked for, with or without an error), readBOM     *)
(* makes at most 4 * 100 source calls: it holds at most 4 bytes, every     *)
(* pass adds a byte or an empty read to a count that is below 100 before   *)
(* each pass, and it makes no further pass once it holds 4 bytes, the      *)
(* source has returned an error, or 100 empty reads have come in a row.    *)
(***************************************************************************)
InReadBOM == variant = "readBOM"

C30_ReadBOMTerminates ==
    InReadBOM =>
        /\ bom.calls <= maxBOMSize * maxConsecutiveEmptyReads
        /\ bom.calls <= maxConsecutiveEmptyReads * Len(bom.buf) + bom.nEmpty
        /\ Len(bom.buf) <= maxBOMSize
        /\ bom.nEmpty <= maxConsecutiveEmptyReads
        /\ bom.nEmpty = maxConsecutiveEmptyReads => bom.err = ErrNoProgress
        /\ last.op = "srcRead" /\ last.err # NoErr => bom.err # NoErr
        /\ ENABLED BomReturn
              <=> /\ phase = "loop"
                  /\ \/ Len(bom.buf) = maxBOMSize
                     \/ bom.err # NoErr
        /\ phase = "returned" => calls = bom.calls

\* the longest run: 99 empty reads before each of 4 single bytes
C30_Witness ==
    /\ InReadBOM
    /\ phase = "returned"
    /\ calls = maxBOMSize * maxConsecutiveEmptyReads
    /\ Len(bom.buf) = maxBOMSize
    /\ bom.err = NoErr

(***************************************************************************)
(* C31: the Discard of the lookahead cannot fail.  In the bufio-based      *)
(* Reader, whenever the lookahead detects an encoding other than Unknown,  *)
(* the Peek before it has buffered at least Len(Enc) bytes and these are   *)
(* the marker; Discard then removes exactly those bytes from the buffer,   *)
(* calls the source not once and returns no error, so the lookahead hands  *)
(* no error to Read and the Read returns what the Read of the buffered     *)
(* source returns.                                                         *)
(***************************************************************************)
C31_Step ==
    variant = "bufio" /\ ReadStep /\ ~r.once /\ r'.Enc # Unknown =>
        \E pk \in {bufioPeek(r.rd, src, maxBOMLen)} :
            \E m \in {Len(Marker(r'.Enc))} :
                /\ Len(pk.b.buf) >= m
                /\ Take(pk.b.buf, m) = Marker(r'.Enc)
                /\ \E dc \in {bufioDiscard(pk.b, pk.src, m)} :
                       /\ dc.discarded = m
                       /\ dc.err = NoErr
                       /\ dc.calls = 0
                       /\ dc.src = pk.src
                       /\ dc.b.buf = Drop(pk.b.buf, m)
                /\ \E d \in {OnceBody(r, src)} :
                       /\ d.bomErr = NoErr
                       /\ d.calls = pk.calls
                       /\ d.src = pk.src
                       /\ d.r.rd.buf = Drop(pk.b.buf, m)
                       /\ \E rd \in {bufioRead(d.r.rd, d.src, last'.cap)} :
                              /\ last'.n = rd.n
                              /\ last'.err = rd.err
                              /\ out' = out \o rd.bytes
                              /\ calls' = pk.calls + rd.calls
                /\ ~Is(last'.err, ErrRead)

C31_DiscardNeverFails == [][C31_Step]_vars

\* a UTF-8 marker alone, handed out a byte at a time: Peek buffers the three
\* bytes and meets end-of-data, Discard removes them, the Read reports EOF
C31_Witness ==
    /\ variant = "bufio"
    /\ content = utf8BOM
    /\ src.chunk = 1
    /\ FirstRead
    /\ Enc = UTF8
    /\ out = <<>>
    /\ last.err = EOF

(***************************************************************************)
(* C32: what DetectEncoding returns fits the buffer.  For every buffer b,  *)
(* if DetectEncoding(b) is an encoding E other than Unknown, then b has at *)
(* least E.Len() bytes and its first E.Len() bytes are E's marker.  So the *)
(* slice Trim takes is never out of range, what Trim returns is            *)
(* len(b) - E.Len() bytes long, and Trim removes one marker at most: a     *)
(* marker that follows the first one is still there in what it returns.    *)
(***************************************************************************)
C32_DetectionFitsBuffer ==
    /\ call.op \in {"DetectEncoding", "DetectEncodingByIndex"} /\ call.enc # Unknown =>
          /\ call.enc \in Encodings
          /\ EncLen(call.enc) = Len(Marker(call.enc))
          /\ Len(call.arg) >= EncLen(call.enc)
          /\ Take(call.arg, EncLen(call.enc)) = Marker(call.enc)
    /\ call.op = "Trim" =>
          /\ ~call.panic
          /\ Len(call.out) = Len(call.arg) - Len(Marker(call.enc))
          /\ Len(call.arg) >= Len(Marker(call.enc))
          /\ \A e \in Encodings :
                HasPrefix(Drop(call.arg, Len(Marker(call.enc))), Marker(e))
                    => HasPrefix(call.out, Marker(e))

\* two markers in a row: Trim removes the first and returns the second
C32_Witness ==
    /\ call.op = "Trim"
    /\ call.arg = utf16BEBOM \o utf16LEBOM
    /\ call.enc = UTF16BigEndian
    /\ call.out = utf16LEBOM
    /\ ~call.panic

(***************************************************************************)
(* C33: a short first buffer spends the detection.  In the scratch-buffer  *)
(* Reader, the first Read with a buffer of 1 to 3 bytes returns 0 bytes    *)
(* and an error that matches both ErrInitBufferReadError and               *)
(* io.ErrShortBuffer, and does not call the source; it is the one run of   *)
(* the detection, so every later Read, whatever the size of its buffer,    *)
(* returns what one Read of the source returns and leaves Enc as it is:    *)
(* Unknown.                                                                *)
(***************************************************************************)
C33_Step ==
    variant = "scratch" /\ ReadStep =>
        /\ ~r.once /\ last'.cap < maxBOMLen =>
              /\ last'.n = 0
              /\ Is(last'.err, ErrInitBufferReadError)
              /\ Is(last'.err, ErrShortBuffer)
              /\ calls' = 0
              /\ src' = src
              /\ out' = out
              /\ r'.once
              /\ r'.Enc = Unknown
        /\ r.once =>
              \E sr \in {SrcRead(src, last'.cap)} :
                  /\ last'.n = sr.n
                  /\ last'.err = sr.err
                  /\ out' = out \o sr.bytes
                  /\ src' = sr.src
                  /\ calls' = 1
                  /\ r' = r

C33_ShortFirstBufferSpendsDetection == [][C33_Step]_vars

\* a UTF-8 marker the source hands out in one piece: a first Read of 4 bytes
\* would detect it, so the first Read was a short one, and the second Read
\* delivers the marker with Enc Unknown
C33_Witness ==
    /\ variant = "scratch"
    /\ content = utf8BOM
    /\ src.chunk = defaultBufSize
    /\ src.gap = 0
    /\ NonEmptyRead
    /\ nth = 2
    /\ last.cap = MaxCap
    /\ last.n = 3
    /\ out = utf8BOM
    /\ Enc = Unknown

(***************************************************************************)
(* C34: the bytes a Reader made by Skip retains.  In every state of such a *)
(* Reader r.buf is nil or holds 1 to 4 bytes, never an empty slice that is *)
(* not nil; so a Read with a non-empty buffer that finds r.buf not nil     *)
(* delivers at least one byte of it, with no error and no source call.     *)
(***************************************************************************)
\* buf is nil, or a slice of 1 to maxBOMSize bytes
RetainedOK(buf) ==
    IF buf.nil THEN buf.b = <<>> ELSE Len(buf.b) \in 1..maxBOMSize

C34_Step ==
    variant = "skip" =>
        /\ RetainedOK(r.buf)
        /\ RetainedOK(r'.buf)
        /\ ReadStep /\ ~r.buf.nil =>
              /\ last'.n >= 1
              /\ last'.n = Min(last'.cap, Len(r.buf.b))
              /\ last'.err = NoErr
              /\ calls' = 0
              /\ out' = out \o Take(r.buf.b, last'.n)

C34_RetainedBufferNeverEmpty == [][C34_Step]_vars

\* four bytes without a marker: a Read of one byte leaves three retained
C34_Witness ==
    /\ variant = "skip"
    /\ Len(content) = maxBOMSize
    /\ MarkerOf(content) = Unknown
    /\ NonEmptyRead
    /\ last.cap = 1
    /\ last.n = 1
    /\ out = Take(content, 1)
    /\ ~r.buf.nil
    /\ r.buf.b = Drop(content, 1)

====
